---- MODULE Spec2Model ----
(***************************************************************************)
(* Reservation core of the hotel-booking backend: the per-date inventory   *)
(* rows, the booking rows and the request handlers of                      *)
(* src/controllers/booking.controller.js, the inventory and unit-status    *)
(* handlers of src/controllers/roomUnit.controleer.js and the daily-rate   *)
(* handlers of src/controllers/price.controller.js.                        *)
(*                                                                         *)
(* A handler is a sequence of database round trips (each `await`).  Every  *)
(* request slot p has a position pc[p]; a step of the model is one round   *)
(* trip, or one prisma.$transaction, of one handler.  What a handler read  *)
(* in an earlier round trip is kept in local[p].  Calendar dates are day   *)
(* numbers; `today` is the server clock truncated to midnight.             *)
(***************************************************************************)
EXTENDS Integers, Sequences, FiniteSets, TLC

VARIABLES
    today,          \* the server's current day (new Date() at 00:00)
    inventory,      \* room_inventory: <<roomTypeId, date>> -> row, for the rows that exist
    bookings,       \* bookings table: sequence of rows, id = index
    payments,       \* payments table: booking id -> payment status or NoPayment
    roomUnits,      \* room_units: unit id -> [roomTypeId, status]
    pc,             \* request slot -> position in its handler
    local,          \* request slot -> what its handler holds in local variables
    everConfirmed,  \* history: ids of bookings that have had status CONFIRMED
    reserved,       \* history: booking id -> the rows its createBooking decremented
    timeZone,       \* the zone the server process runs in; never changes
    dailyRates,     \* daily_rates: <<roomTypeId, date>> -> price, for the rows that exist
    roomUnitHistory \* room_unit_history: sequence of [roomUnitId, oldStatus, newStatus]

vars == <<today, inventory, bookings, payments, roomUnits, pc, local,
          everConfirmed, reserved, timeZone, dailyRates, roomUnitHistory>>

db == <<inventory, bookings, payments, roomUnits>>

----------------------------------------------------------------------------
(* Bounds of the model *)

MaxDay == 3
MaxStock == 2
MaxBookings == 2
MaxRefs == 2
MaxBulk == 2
NumProcs == 2
MaxDate == 12
MaxHistory == 3
MaxRates == 4

(* Program constant: the longest stay validateBookingDates accepts *)
MaxNights == 10
(* Program constant: the most rows bulkUploadRates accepts *)
MaxUpload == 365

----------------------------------------------------------------------------
(* Value spaces *)

NoValue == "undefined"
\* an absent date in a request body
NoDay == 0
\* an absent availableCount or totalStock in a request body
NoCount == -9
NoPayment == "no_payment"
NoLocal == [op |-> "none"]

Days == 1..MaxDay
InvDays == 1..(MaxDay - 1)
Procs == 1..NumProcs
Refs == 1..MaxRefs
BookingIds == 1..MaxBookings
\* the calendar dates a createBooking request may carry when stays of more
\* than MaxNights nights are asked for
DateDays == 1..MaxDate

\* room_types rows with deletedAt = null, and the ids a request may carry
ActiveRoomTypes == {"rt1"}
RoomTypeIds == {"rt1", "rtX"}
\* guest_profiles rows, and the ids a request may carry
KnownGuests == {"g1"}
\* room_units rows: one unit of the bookable room type, one of another type
UnitIds == {"u1", "u2"}
UnitRoomType(u) == IF u = "u1" THEN "rt1" ELSE "rt2"

BookingStatus == {"PENDING", "CONFIRMED", "CANCELLED", "CHECKED_IN", "CHECKED_OUT"}
PaymentStatus == {"PENDING", "SUCCESS", "FAILED", "REFUNDED"}
RoomStatus == {"AVAILABLE", "DIRTY", "MAINTENANCE", "OCCUPIED"}

InvKeys == ActiveRoomTypes \X InvDays

Min(S) == CHOOSE x \in S : \A y \in S : x <= y

----------------------------------------------------------------------------
(* Catalogue data read by the handlers *)

BasePrice(rt) == 100

\* daily_rates: the override of a date, if there is one
HasDailyRate(rt, d) == <<rt, d>> \in DOMAIN dailyRates
DailyRatePrice(rt, d) == dailyRates[<<rt, d>>]

----------------------------------------------------------------------------
(* Dates.  A calendar date is a day number.  An instant (a JavaScript Date) *)
(* is counted in half days since the UTC midnight of day 0.  The server     *)
(* runs in UTC, in a zone half a day behind it (West) or half a day ahead   *)
(* of it (East).                                                            *)

TimeZones == {"UTC", "West", "East"}

\* the instant of the local midnight of day 0
TzOffset == CASE timeZone = "UTC" -> 0 [] timeZone = "West" -> 1 [] timeZone = "East" -> -1

\* new Date("YYYY-MM-DD"), and the Date a DATE column is read as: UTC midnight
UtcMidnight(d) == 2 * d

\* date.setHours(0, 0, 0, 0): the local midnight at or before the instant
setHours(x) == x - ((x - TzOffset) % 2)

\* new Date() followed by setHours(0, 0, 0, 0)
TodayMidnight == 2 * today + TzOffset

\* the day a DATE column keeps of an instant, and the date toISOString() prints
DateColumn(x) == x \div 2

\* the day the Date that validateBookingDates returns for a date is stored as
StoredDate(d) == DateColumn(setHours(UtcMidnight(d)))

----------------------------------------------------------------------------
(* Queries *)

\* prisma.roomInventory.findMany({roomTypeId, date: {gte: checkIn, lt: checkOut}})
InventoryInRange(inv, rt, checkIn, checkOut) ==
    {k \in DOMAIN inv : k[1] = rt /\ checkIn <= k[2] /\ k[2] < checkOut}

\* the dates of [checkIn, checkOut) a room_inventory row could exist for
RangeKeys(rt, checkIn, checkOut) ==
    {k \in InvKeys : k[1] = rt /\ checkIn <= k[2] /\ k[2] < checkOut}

BookingExists(id) == id \in 1..Len(bookings)

UsedRefs == {bookings[i].bookingReference : i \in 1..Len(bookings)}

\* bookings of the room type overlapping the range with status CONFIRMED, CHECKED_IN
ExistingBookings(rt, checkIn, checkOut) ==
    {i \in 1..Len(bookings) :
        /\ bookings[i].roomTypeId = rt
        /\ bookings[i].checkIn < checkOut
        /\ bookings[i].checkOut > checkIn
        /\ bookings[i].status \in {"CONFIRMED", "CHECKED_IN"}}

----------------------------------------------------------------------------
(* Helpers of booking.controller.js; an error is its HTTP status, 0 is none *)

validateBookingDates(checkIn, checkOut) ==
    LET start == setHours(UtcMidnight(checkIn))
        end == setHours(UtcMidnight(checkOut))
        nights == (end - start + 1) \div 2
    IN  IF start < TodayMidnight THEN 400
        ELSE IF start >= end THEN 400
        ELSE IF nights > MaxNights THEN 400
        ELSE 0

\* checkRoomAvailability without its conflict check
checkRoomAvailabilityNoConflict(rt, checkIn, checkOut) ==
    LET rows == InventoryInRange(inventory, rt, checkIn, checkOut)
    IN  IF rows = {} THEN 404 ELSE 0

checkRoomAvailability(rt, checkIn, checkOut) ==
    LET rows == InventoryInRange(inventory, rt, checkIn, checkOut)
        existingBookings == ExistingBookings(rt, checkIn, checkOut)
    IN  IF rows = {} THEN 404
        ELSE IF Min({inventory[k].availableCount : k \in rows})
                    <= Cardinality(existingBookings) THEN 409
        ELSE 0

\* calculateBookingPrice charging the base price for every night
calculateBookingPriceBaseOnly(rt, currentDate, checkOut) ==
    IF currentDate < checkOut THEN BasePrice(rt) * (checkOut - currentDate) ELSE 0

\* the while loop of lines 91-105, from currentDate to checkOut
RECURSIVE calculateBookingPrice(_, _, _)
calculateBookingPrice(rt, currentDate, checkOut) ==
    IF currentDate < checkOut
    THEN (IF HasDailyRate(rt, currentDate) THEN DailyRatePrice(rt, currentDate)
          ELSE BasePrice(rt))
         + calculateBookingPrice(rt, currentDate + 1, checkOut)
    ELSE 0

\* tx.roomInventory.update({data: {availableCount: {increment: delta}}}) on
\* every row findMany returned for the range
AdjustRange(inv, rt, checkIn, checkOut, delta) ==
    [k \in DOMAIN inv |->
        IF k \in InventoryInRange(inv, rt, checkIn, checkOut)
        THEN [inv[k] EXCEPT !.availableCount = @ + delta]
        ELSE inv[k]]

----------------------------------------------------------------------------
(* Shapes of a step.  A handler that throws (an ApiError with the given     *)
(* HTTP status, or a database error) has written nothing, or has its        *)
(* transaction rolled back: the step leaves every table as it was.          *)

Idle(p) == pc[p] = "idle"

\* the handler in slot p throws before or inside its transaction
Reject(p, code) ==
    /\ code # 0
    /\ pc' = [pc EXCEPT ![p] = "idle"]
    /\ local' = [local EXCEPT ![p] = NoLocal]
    /\ UNCHANGED <<today, db, everConfirmed, reserved, timeZone, dailyRates, roomUnitHistory>>

\* the handler in slot p goes on to its next round trip holding loc
Continue(p, next, loc) ==
    /\ pc' = [pc EXCEPT ![p] = next]
    /\ local' = [local EXCEPT ![p] = loc]
    /\ UNCHANGED <<today, db, everConfirmed, reserved, timeZone, dailyRates, roomUnitHistory>>

\* the handler in slot p sends its response
Finish(p) ==
    /\ pc' = [pc EXCEPT ![p] = "idle"]
    /\ local' = [local EXCEPT ![p] = NoLocal]

\* a handler run from its first line to its response with no other request
\* in between: it throws, or does what its last round trips do
Throw(code) ==
    /\ code # 0
    /\ UNCHANGED <<today, db, pc, local, everConfirmed, reserved, timeZone, dailyRates, roomUnitHistory>>

Return ==
    UNCHANGED <<pc, local>>

----------------------------------------------------------------------------
(* createBooking *)

\* first error of lines 156-186, or 0
CreateBookingError(guestId, roomTypeId, checkIn, checkOut) ==
    IF guestId \notin KnownGuests THEN 404
    ELSE IF validateBookingDates(checkIn, checkOut) # 0
         THEN validateBookingDates(checkIn, checkOut)
    ELSE IF roomTypeId \notin ActiveRoomTypes THEN 404
    ELSE checkRoomAvailability(roomTypeId, StoredDate(checkIn), StoredDate(checkOut))

\* what lines 171-189 leave in the handler's variables
CreateBookingLocals(guestId, roomTypeId, checkIn, checkOut, specialRequests, ref) ==
    [guestId |-> guestId, roomTypeId |-> roomTypeId,
     start |-> StoredDate(checkIn), end |-> StoredDate(checkOut),
     totalPrice |-> calculateBookingPrice(roomTypeId, StoredDate(checkIn),
                                          StoredDate(checkOut)),
     bookingReference |-> ref,
     specialRequests |-> specialRequests]

\* generateBookingReference: a candidate no booking carries at the look-up
FreshRefs == Refs \ UsedRefs

\* the row tx.booking.create inserts, lines 209-219
NewBooking(l) ==
    [bookingReference |-> l.bookingReference,
     guestId |-> l.guestId,
     roomTypeId |-> l.roomTypeId,
     roomUnitId |-> NoValue,
     checkIn |-> l.start,
     checkOut |-> l.end,
     totalPrice |-> l.totalPrice,
     specialRequests |-> l.specialRequests,
     status |-> "PENDING"]

\* the transaction of lines 192-226 commits: every row of the range is
\* decremented and the booking inserted
CreateBookingCommit(l) ==
    /\ inventory' = AdjustRange(inventory, l.roomTypeId, l.start, l.end, -1)
    /\ bookings' = Append(bookings, NewBooking(l))
    /\ reserved' = [reserved EXCEPT ![Len(bookings) + 1] =
                        InventoryInRange(inventory, l.roomTypeId, l.start, l.end)]
    /\ UNCHANGED <<today, payments, roomUnits, everConfirmed, timeZone, dailyRates, roomUnitHistory>>

\* bookings being created by requests in flight; caps the bookings table
CreatesInFlight ==
    Cardinality({q \in Procs : pc[q] \in {"create_ref", "create_tx", "create_update"}})

\* lines 154-189: the checks, the price and the booking reference
CreateBookingCheck(p, guestId, roomTypeId, checkIn, checkOut, specialRequests) ==
    /\ Idle(p)
    /\ Len(bookings) + CreatesInFlight < MaxBookings
    /\ LET err == CreateBookingError(guestId, roomTypeId, checkIn, checkOut)
       IN  IF err # 0 THEN Reject(p, err)
           ELSE \E ref \in FreshRefs :
                  Continue(p, "create_tx",
                      CreateBookingLocals(guestId, roomTypeId, checkIn, checkOut,
                                          specialRequests, ref))

\* createBooking with its decrements outside the transaction: they stay
\* when the insert throws
CreateBookingTxNoRollback(p) ==
    /\ pc[p] = "create_tx"
    /\ Finish(p)
    /\ IF local[p].bookingReference \in UsedRefs
       THEN /\ inventory' = AdjustRange(inventory, local[p].roomTypeId,
                                        local[p].start, local[p].end, -1)
            /\ UNCHANGED <<today, bookings, payments, roomUnits, everConfirmed, reserved, timeZone, dailyRates, roomUnitHistory>>
       ELSE CreateBookingCommit(local[p])

\* createBooking on a bookings table without its unique index
CreateBookingTxNoUniqueIndex(p) ==
    /\ pc[p] = "create_tx"
    /\ Finish(p)
    /\ CreateBookingCommit(local[p])

\* lines 192-226; when the insert violates bookings_bookingReference_key the
\* transaction throws and its decrements are rolled back
CreateBookingTx(p) ==
    /\ pc[p] = "create_tx"
    /\ IF local[p].bookingReference \in UsedRefs
       THEN Reject(p, 500)
       ELSE Finish(p) /\ CreateBookingCommit(local[p])

\* lines 154-188 with generateBookingReference entered: the checks pass and
\* lines 9-12 draw the first candidate, which Math.random may draw again.  A
\* call made when every reference is taken can never insert a row, so the
\* cap on the bookings table does not hold it back.
CreateBookingStart(p, guestId, roomTypeId, checkIn, checkOut, specialRequests) ==
    /\ Idle(p)
    /\ (Len(bookings) + CreatesInFlight < MaxBookings \/ UsedRefs = Refs)
    /\ LET err == CreateBookingError(guestId, roomTypeId, checkIn, checkOut)
       IN  IF err # 0 THEN Reject(p, err)
           ELSE \E candidate \in Refs :
                  Continue(p, "create_ref",
                      CreateBookingLocals(guestId, roomTypeId, checkIn, checkOut,
                                          specialRequests, candidate))

\* generateBookingReference, lines 15-23: the look-up of the candidate; when
\* a booking carries it the function calls itself, which draws a candidate
\* again, and otherwise it returns the candidate
GenerateBookingReferenceLookup(p) ==
    /\ pc[p] = "create_ref"
    /\ IF local[p].bookingReference \in UsedRefs
       THEN \E candidate \in Refs :
              Continue(p, "create_ref",
                  [local[p] EXCEPT !.bookingReference = candidate])
       ELSE Continue(p, "create_tx", local[p])

\* the whole handler, lines 153-234
createBooking(guestId, roomTypeId, checkIn, checkOut, specialRequests) ==
    /\ Len(bookings) < MaxBookings
    /\ LET err == CreateBookingError(guestId, roomTypeId, checkIn, checkOut)
       IN  IF err # 0 THEN Throw(err)
           ELSE \E ref \in FreshRefs :
                  /\ Return
                  /\ CreateBookingCommit(
                        CreateBookingLocals(guestId, roomTypeId, checkIn, checkOut,
                                            specialRequests, ref))

----------------------------------------------------------------------------
(* cancelBooking *)

\* cancelBooking refusing only from the day after check-in
CancelBookingErrorStrictDate(b) ==
    IF b.status \in {"CHECKED_OUT", "CANCELLED"} THEN 400
    ELSE IF UtcMidnight(b.checkIn) < TodayMidnight THEN 400
    ELSE 0

\* cancelBooking without its date guard
CancelBookingErrorNoDateGuard(b) ==
    IF b.status \in {"CHECKED_OUT", "CANCELLED"} THEN 400 ELSE 0

\* the guards of lines 366-381 on the booking row that was read, or 0
CancelBookingError(b) ==
    IF b.status \in {"CHECKED_OUT", "CANCELLED"} THEN 400
    ELSE IF UtcMidnight(b.checkIn) <= TodayMidnight THEN 400
    ELSE 0

\* the transaction of lines 384-410: increment every row of the range of the
\* booking as it was read, and set the status
CancelBookingCommit(bookingId, booking) ==
    /\ inventory' = AdjustRange(inventory, booking.roomTypeId,
                                booking.checkIn, booking.checkOut, 1)
    /\ bookings' = [bookings EXCEPT ![bookingId].status = "CANCELLED"]
    /\ UNCHANGED <<today, payments, roomUnits, everConfirmed, reserved, timeZone, dailyRates, roomUnitHistory>>

\* lines 361-381: read the booking, check status and date
CancelBookingCheck(p, bookingId) ==
    /\ Idle(p)
    /\ IF ~BookingExists(bookingId) THEN Reject(p, 404)
       ELSE IF CancelBookingError(bookings[bookingId]) # 0
            THEN Reject(p, CancelBookingError(bookings[bookingId]))
       ELSE Continue(p, "cancel_tx",
                [bookingId |-> bookingId, booking |-> bookings[bookingId]])

CancelBookingTx(p) ==
    /\ pc[p] = "cancel_tx"
    /\ Finish(p)
    /\ CancelBookingCommit(local[p].bookingId, local[p].booking)

\* the whole handler, lines 354-415
cancelBooking(bookingId) ==
    IF ~BookingExists(bookingId) THEN Throw(404)
    ELSE IF CancelBookingError(bookings[bookingId]) # 0
         THEN Throw(CancelBookingError(bookings[bookingId]))
    ELSE Return /\ CancelBookingCommit(bookingId, bookings[bookingId])

----------------------------------------------------------------------------
(* confirmBooking *)

\* confirmBooking without its payment guard
ConfirmBookingErrorNoPayment(b, payment) ==
    IF b.status # "PENDING" THEN 400 ELSE 0

\* the guards of lines 434-441 on the booking and payment that were read, or 0
ConfirmBookingError(b, payment) ==
    IF b.status # "PENDING" THEN 400
    ELSE IF payment = NoPayment \/ payment # "SUCCESS" THEN 400
    ELSE 0

\* lines 444-453
ConfirmBookingUpdate(bookingId) ==
    /\ bookings' = [bookings EXCEPT ![bookingId].status = "CONFIRMED"]
    /\ everConfirmed' = everConfirmed \cup {bookingId}
    /\ UNCHANGED <<reserved, timeZone, dailyRates, roomUnitHistory>>
    /\ UNCHANGED <<today, inventory, payments, roomUnits>>

\* lines 425-441: read the booking with its payment, check both
ConfirmBookingCheck(p, bookingId) ==
    /\ Idle(p)
    /\ IF ~BookingExists(bookingId) THEN Reject(p, 404)
       ELSE IF ConfirmBookingError(bookings[bookingId], payments[bookingId]) # 0
            THEN Reject(p, ConfirmBookingError(bookings[bookingId], payments[bookingId]))
       ELSE Continue(p, "confirm_write", [bookingId |-> bookingId])

ConfirmBookingWrite(p) ==
    /\ pc[p] = "confirm_write"
    /\ Finish(p)
    /\ ConfirmBookingUpdate(local[p].bookingId)

\* the whole handler, lines 418-458
confirmBooking(bookingId) ==
    IF ~BookingExists(bookingId) THEN Throw(404)
    ELSE IF ConfirmBookingError(bookings[bookingId], payments[bookingId]) # 0
         THEN Throw(ConfirmBookingError(bookings[bookingId], payments[bookingId]))
    ELSE Return /\ ConfirmBookingUpdate(bookingId)

----------------------------------------------------------------------------
(* checkInBooking *)

\* checkInBooking without its date guard
CheckInBookingErrorNoDateGuard(b) ==
    IF b.status # "CONFIRMED" THEN 400 ELSE 0

\* the guards of lines 477-487 on the booking row that was read, or 0
CheckInBookingError(b) ==
    IF b.status # "CONFIRMED" THEN 400
    ELSE IF UtcMidnight(b.checkIn) > TodayMidnight THEN 400
    ELSE 0

\* roomUnit.findFirst without the status filter
UnitAssignableAnyStatus(roomUnitId, roomTypeId) ==
    /\ roomUnitId \in DOMAIN roomUnits
    /\ roomUnits[roomUnitId].roomTypeId = roomTypeId

\* roomUnit.findFirst({id, roomTypeId: booking.roomTypeId, status: "AVAILABLE"})
UnitAssignable(roomUnitId, roomTypeId) ==
    /\ roomUnitId \in DOMAIN roomUnits
    /\ roomUnits[roomUnitId].roomTypeId = roomTypeId
    /\ roomUnits[roomUnitId].status = "AVAILABLE"

\* lines 509-512: roomUnit.update, outside any transaction
OccupyUnit(roomUnitId) ==
    [roomUnits EXCEPT ![roomUnitId].status = "OCCUPIED"]

\* lines 515-523: updateData is {status} or {status, roomUnitId}
CheckInBookingUpdate(bookingId, roomUnitId) ==
    [bookings EXCEPT ![bookingId] =
        IF roomUnitId # NoValue
        THEN [@ EXCEPT !.status = "CHECKED_IN", !.roomUnitId = roomUnitId]
        ELSE [@ EXCEPT !.status = "CHECKED_IN"]]

\* lines 468-490: read the booking, check status and date
CheckInBookingCheck(p, bookingId, roomUnitId) ==
    /\ Idle(p)
    /\ IF ~BookingExists(bookingId) THEN Reject(p, 404)
       ELSE IF CheckInBookingError(bookings[bookingId]) # 0
            THEN Reject(p, CheckInBookingError(bookings[bookingId]))
       ELSE Continue(p, IF roomUnitId # NoValue THEN "checkin_unit" ELSE "checkin_write",
                [bookingId |-> bookingId, roomUnitId |-> roomUnitId,
                 roomTypeId |-> bookings[bookingId].roomTypeId])

\* lines 492-506: look the unit up
CheckInBookingFindUnit(p) ==
    /\ pc[p] = "checkin_unit"
    /\ IF ~UnitAssignable(local[p].roomUnitId, local[p].roomTypeId)
       THEN Reject(p, 404)
       ELSE Continue(p, "checkin_occupy", local[p])

\* lines 509-512
CheckInBookingOccupy(p) ==
    /\ pc[p] = "checkin_occupy"
    /\ roomUnits' = OccupyUnit(local[p].roomUnitId)
    /\ pc' = [pc EXCEPT ![p] = "checkin_write"]
    /\ UNCHANGED <<today, inventory, bookings, payments, local, everConfirmed, reserved, timeZone, dailyRates, roomUnitHistory>>

\* lines 515-527
CheckInBookingWrite(p) ==
    /\ pc[p] = "checkin_write"
    /\ bookings' = CheckInBookingUpdate(local[p].bookingId, local[p].roomUnitId)
    /\ Finish(p)
    /\ UNCHANGED <<today, inventory, payments, roomUnits, everConfirmed, reserved, timeZone, dailyRates, roomUnitHistory>>

\* the whole handler, lines 461-528
checkInBooking(bookingId, roomUnitId) ==
    IF ~BookingExists(bookingId) THEN Throw(404)
    ELSE IF CheckInBookingError(bookings[bookingId]) # 0
         THEN Throw(CheckInBookingError(bookings[bookingId]))
    ELSE IF roomUnitId # NoValue
            /\ ~UnitAssignable(roomUnitId, bookings[bookingId].roomTypeId)
         THEN Throw(404)
    ELSE /\ Return
         /\ roomUnits' = IF roomUnitId # NoValue THEN OccupyUnit(roomUnitId)
                         ELSE roomUnits
         /\ bookings' = CheckInBookingUpdate(bookingId, roomUnitId)
         /\ UNCHANGED <<today, inventory, payments, everConfirmed, reserved, timeZone, dailyRates, roomUnitHistory>>

----------------------------------------------------------------------------
(* checkOutBooking *)

\* the guard of lines 547-549 on the booking row that was read, or 0
CheckOutBookingError(b) ==
    IF b.status # "CHECKED_IN" THEN 400 ELSE 0

\* checkOutBooking leaving the unit as it is
CheckOutBookingCommitKeepsUnit(bookingId, roomUnitId) ==
    /\ bookings' = [bookings EXCEPT ![bookingId].status = "CHECKED_OUT"]
    /\ UNCHANGED <<today, inventory, payments, roomUnits, everConfirmed, reserved, timeZone, dailyRates, roomUnitHistory>>

\* checkOutBooking giving the nights of the stay back to the stock
CheckOutBookingCommitRecredits(bookingId, roomUnitId) ==
    /\ roomUnits' = IF roomUnitId # NoValue
                    THEN [roomUnits EXCEPT ![roomUnitId].status = "DIRTY"]
                    ELSE roomUnits
    /\ bookings' = [bookings EXCEPT ![bookingId].status = "CHECKED_OUT"]
    /\ inventory' = AdjustRange(inventory, bookings[bookingId].roomTypeId,
                                bookings[bookingId].checkIn, bookings[bookingId].checkOut, 1)
    /\ UNCHANGED <<today, payments, everConfirmed, reserved, timeZone, dailyRates, roomUnitHistory>>

\* the transaction of lines 552-571: the unit that was read with the booking
\* becomes DIRTY, the booking CHECKED_OUT
CheckOutBookingCommit(bookingId, roomUnitId) ==
    /\ roomUnits' = IF roomUnitId # NoValue
                    THEN [roomUnits EXCEPT ![roomUnitId].status = "DIRTY"]
                    ELSE roomUnits
    /\ bookings' = [bookings EXCEPT ![bookingId].status = "CHECKED_OUT"]
    /\ UNCHANGED <<today, inventory, payments, everConfirmed, reserved, timeZone, dailyRates, roomUnitHistory>>

\* lines 538-549
CheckOutBookingCheck(p, bookingId) ==
    /\ Idle(p)
    /\ IF ~BookingExists(bookingId) THEN Reject(p, 404)
       ELSE IF CheckOutBookingError(bookings[bookingId]) # 0
            THEN Reject(p, CheckOutBookingError(bookings[bookingId]))
       ELSE Continue(p, "checkout_tx",
                [bookingId |-> bookingId, roomUnitId |-> bookings[bookingId].roomUnitId])

CheckOutBookingTx(p) ==
    /\ pc[p] = "checkout_tx"
    /\ Finish(p)
    /\ CheckOutBookingCommit(local[p].bookingId, local[p].roomUnitId)

\* the whole handler, lines 531-576
checkOutBooking(bookingId) ==
    IF ~BookingExists(bookingId) THEN Throw(404)
    ELSE IF CheckOutBookingError(bookings[bookingId]) # 0
         THEN Throw(CheckOutBookingError(bookings[bookingId]))
    ELSE Return
         /\ CheckOutBookingCommit(bookingId, bookings[bookingId].roomUnitId)

----------------------------------------------------------------------------
(* updateBooking *)

\* updateBooking computing the price anew on every call
UpdateBookingDataAlwaysReprices(b, checkIn, checkOut, roomTypeId, specialRequests) ==
    LET newCheckIn == IF checkIn # NoDay THEN checkIn ELSE b.checkIn
        newCheckOut == IF checkOut # NoDay THEN checkOut ELSE b.checkOut
        newRoomTypeId == IF roomTypeId # NoValue THEN roomTypeId ELSE b.roomTypeId
        moves == checkIn # NoDay \/ checkOut # NoDay \/ roomTypeId # NoValue
        err == IF ~moves THEN 0
               ELSE IF validateBookingDates(newCheckIn, newCheckOut) # 0
                    THEN validateBookingDates(newCheckIn, newCheckOut)
               ELSE checkRoomAvailability(newRoomTypeId, StoredDate(newCheckIn),
                                          StoredDate(newCheckOut))
    IN  [error |-> err,
         moves |-> TRUE,
         checkIn |-> StoredDate(newCheckIn),
         checkOut |-> StoredDate(newCheckOut),
         roomTypeId |-> newRoomTypeId,
         totalPrice |-> calculateBookingPrice(newRoomTypeId, StoredDate(newCheckIn),
                                              StoredDate(newCheckOut)),
         setsRequests |-> specialRequests # NoValue,
         specialRequests |-> specialRequests]

\* updateData of lines 679-704 for the booking row b that was read, with the
\* error thrown on the way (validateBookingDates, checkRoomAvailability), or 0
UpdateBookingData(b, checkIn, checkOut, roomTypeId, specialRequests) ==
    LET newCheckIn == IF checkIn # NoDay THEN checkIn ELSE b.checkIn
        newCheckOut == IF checkOut # NoDay THEN checkOut ELSE b.checkOut
        newRoomTypeId == IF roomTypeId # NoValue THEN roomTypeId ELSE b.roomTypeId
        moves == checkIn # NoDay \/ checkOut # NoDay \/ roomTypeId # NoValue
        err == IF ~moves THEN 0
               ELSE IF validateBookingDates(newCheckIn, newCheckOut) # 0
                    THEN validateBookingDates(newCheckIn, newCheckOut)
               ELSE checkRoomAvailability(newRoomTypeId, StoredDate(newCheckIn),
                                          StoredDate(newCheckOut))
    IN  [error |-> err,
         moves |-> moves,
         checkIn |-> StoredDate(newCheckIn),
         checkOut |-> StoredDate(newCheckOut),
         roomTypeId |-> newRoomTypeId,
         totalPrice |-> IF moves /\ err = 0
                        THEN calculateBookingPrice(newRoomTypeId, StoredDate(newCheckIn),
                                                   StoredDate(newCheckOut))
                        ELSE b.totalPrice,
         setsRequests |-> specialRequests # NoValue,
         specialRequests |-> specialRequests]

\* updateBooking without its status guard
UpdateBookingErrorAnyStatus(b, checkIn, checkOut, roomTypeId, specialRequests) ==
    UpdateBookingData(b, checkIn, checkOut, roomTypeId, specialRequests).error

\* the guard of lines 673-676 and the errors of lines 686-704, or 0
UpdateBookingError(b, checkIn, checkOut, roomTypeId, specialRequests) ==
    IF b.status # "PENDING" THEN 400
    ELSE UpdateBookingData(b, checkIn, checkOut, roomTypeId, specialRequests).error

\* booking.update({data: updateData}), lines 706-714: only the fields
\* updateData carries are written; no room_inventory row is touched
UpdateBookingWriteData(bookingId, data) ==
    /\ bookings' = [bookings EXCEPT ![bookingId] =
            [@ EXCEPT !.checkIn = IF data.moves THEN data.checkIn ELSE @,
                      !.checkOut = IF data.moves THEN data.checkOut ELSE @,
                      !.roomTypeId = IF data.moves THEN data.roomTypeId ELSE @,
                      !.totalPrice = IF data.moves THEN data.totalPrice ELSE @,
                      !.specialRequests = IF data.setsRequests
                                          THEN data.specialRequests ELSE @]]
    /\ UNCHANGED <<today, inventory, payments, roomUnits, everConfirmed, reserved, timeZone, dailyRates, roomUnitHistory>>

\* lines 665-704
UpdateBookingCheck(p, bookingId, checkIn, checkOut, roomTypeId, specialRequests) ==
    /\ Idle(p)
    /\ IF ~BookingExists(bookingId) THEN Reject(p, 404)
       ELSE LET err == UpdateBookingError(bookings[bookingId], checkIn, checkOut,
                                          roomTypeId, specialRequests)
            IN  IF err # 0 THEN Reject(p, err)
                ELSE Continue(p, "update_write",
                        [bookingId |-> bookingId,
                         updateData |-> UpdateBookingData(bookings[bookingId], checkIn,
                                            checkOut, roomTypeId, specialRequests)])

UpdateBookingWrite(p) ==
    /\ pc[p] = "update_write"
    /\ Finish(p)
    /\ UpdateBookingWriteData(local[p].bookingId, local[p].updateData)

\* the whole handler, lines 658-719
updateBooking(bookingId, checkIn, checkOut, roomTypeId, specialRequests) ==
    IF ~BookingExists(bookingId) THEN Throw(404)
    ELSE LET err == UpdateBookingError(bookings[bookingId], checkIn, checkOut,
                                       roomTypeId, specialRequests)
         IN  IF err # 0 THEN Throw(err)
             ELSE Return
                  /\ UpdateBookingWriteData(bookingId,
                        UpdateBookingData(bookings[bookingId], checkIn, checkOut,
                                          roomTypeId, specialRequests))

----------------------------------------------------------------------------
(* Inventory administration, roomUnit.controleer.js.  Each handler is run  *)
(* from its first line to its response.                                    *)

InventoryRowExists(rt, date) == <<rt, date>> \in DOMAIN inventory

\* createInventory, lines 333-384; `!availableCount` also refuses 0
CreateInventoryError(rt, date, availableCount, totalStock) ==
    IF availableCount = NoCount \/ availableCount = 0
       \/ totalStock = NoCount \/ totalStock = 0 THEN 400
    ELSE IF availableCount < 0 \/ totalStock <= 0 THEN 400
    ELSE IF availableCount > totalStock THEN 400
    ELSE IF rt \notin ActiveRoomTypes THEN 404
    ELSE IF InventoryRowExists(rt, date) THEN 409
    ELSE 0

createInventory(rt, date, availableCount, totalStock) ==
    IF CreateInventoryError(rt, date, availableCount, totalStock) # 0
    THEN Throw(CreateInventoryError(rt, date, availableCount, totalStock))
    ELSE /\ inventory' = [k \in DOMAIN inventory \cup {<<rt, date>>} |->
                IF k = <<rt, date>>
                THEN [availableCount |-> availableCount, totalStock |-> totalStock,
                      version |-> 0]
                ELSE inventory[k]]
         /\ UNCHANGED <<today, bookings, payments, roomUnits, pc, local, everConfirmed, reserved, timeZone, dailyRates, roomUnitHistory>>

\* checkAvailability, lines 475-542: the first error of lines 478-524, or 0
CheckAvailabilityError(rt, checkInDate, checkOutDate, roomsNeeded) ==
    IF roomsNeeded < 1 THEN 400
    ELSE IF UtcMidnight(checkInDate) >= UtcMidnight(checkOutDate) THEN 400
    ELSE IF UtcMidnight(checkInDate) < TodayMidnight THEN 400
    ELSE IF rt \notin ActiveRoomTypes THEN 404
    ELSE IF InventoryInRange(inventory, rt, checkInDate, checkOutDate) = {} THEN 404
    ELSE 0

\* line 527: the smallest availableCount of the rows findMany returned
MinAvailable(rt, checkInDate, checkOutDate) ==
    Min({inventory[k].availableCount :
            k \in InventoryInRange(inventory, rt, checkInDate, checkOutDate)})

\* lines 476-528: the checks and the two queries; the handler then holds the
\* figures of its response
CheckAvailabilityQuery(p, rt, checkInDate, checkOutDate, roomsNeeded) ==
    /\ Idle(p)
    /\ LET err == CheckAvailabilityError(rt, checkInDate, checkOutDate, roomsNeeded)
       IN  IF err # 0 THEN Reject(p, err)
           ELSE Continue(p, "availability_respond",
                    [roomTypeId |-> rt,
                     startDate |-> checkInDate,
                     endDate |-> checkOutDate,
                     roomsNeeded |-> roomsNeeded,
                     minAvailable |-> MinAvailable(rt, checkInDate, checkOutDate),
                     isAvailable |->
                        MinAvailable(rt, checkInDate, checkOutDate) >= roomsNeeded])

\* lines 530-541: the response
CheckAvailabilityRespond(p) ==
    /\ pc[p] = "availability_respond"
    /\ Finish(p)
    /\ UNCHANGED <<today, db, everConfirmed, reserved, timeZone, dailyRates, roomUnitHistory>>

\* updateInventory, lines 545-599
UpdateInventoryError(rt, date, availableCount, totalStock) ==
    IF availableCount = NoCount /\ totalStock = NoCount THEN 400
    ELSE IF availableCount # NoCount /\ availableCount < 0 THEN 400
    ELSE IF totalStock # NoCount /\ totalStock <= 0 THEN 400
    ELSE IF ~InventoryRowExists(rt, date) THEN 404
    ELSE LET newAvailable == IF availableCount # NoCount THEN availableCount
                             ELSE inventory[<<rt, date>>].availableCount
             newTotal == IF totalStock # NoCount THEN totalStock
                         ELSE inventory[<<rt, date>>].totalStock
         IN  IF newAvailable > newTotal THEN 400 ELSE 0

updateInventory(rt, date, availableCount, totalStock) ==
    IF UpdateInventoryError(rt, date, availableCount, totalStock) # 0
    THEN Throw(UpdateInventoryError(rt, date, availableCount, totalStock))
    ELSE /\ inventory' = [inventory EXCEPT ![<<rt, date>>] =
                [@ EXCEPT !.availableCount =
                              IF availableCount # NoCount THEN availableCount ELSE @,
                          !.totalStock =
                              IF totalStock # NoCount THEN totalStock ELSE @]]
         /\ UNCHANGED <<today, bookings, payments, roomUnits, pc, local, everConfirmed, reserved, timeZone, dailyRates, roomUnitHistory>>

\* decrementInventory without its stock check
DecrementInventoryErrorNoStockCheck(rt, startDate, endDate, quantity) ==
    LET inventoryRecords == InventoryInRange(inventory, rt, startDate, endDate)
    IN  IF quantity < 1 THEN 400
        ELSE IF inventoryRecords = {} THEN 404
        ELSE 0

\* decrementInventory, lines 602-665
DecrementInventoryError(rt, startDate, endDate, quantity) ==
    LET inventoryRecords == InventoryInRange(inventory, rt, startDate, endDate)
    IN  IF quantity < 1 THEN 400
        ELSE IF inventoryRecords = {} THEN 404
        ELSE IF \E k \in inventoryRecords : inventory[k].availableCount < quantity
             THEN 400
        ELSE 0

decrementInventory(rt, startDate, endDate, quantity) ==
    IF DecrementInventoryError(rt, startDate, endDate, quantity) # 0
    THEN Throw(DecrementInventoryError(rt, startDate, endDate, quantity))
    ELSE /\ inventory' = AdjustRange(inventory, rt, startDate, endDate, -quantity)
         /\ UNCHANGED <<today, bookings, payments, roomUnits, pc, local, everConfirmed, reserved, timeZone, dailyRates, roomUnitHistory>>

\* lines 602-642, decrementInventory as far as its findMany and its checks:
\* the handler then holds the rows it read
DecrementInventoryRead(p, rt, startDate, endDate, quantity) ==
    /\ Idle(p)
    /\ LET err == DecrementInventoryError(rt, startDate, endDate, quantity)
       IN  IF err # 0 THEN Reject(p, err)
           ELSE Continue(p, "decrement_write",
                    [quantity |-> quantity,
                     inventoryRecords |->
                        [k \in InventoryInRange(inventory, rt, startDate, endDate) |->
                            inventory[k]]])

\* decrementInventory writing the count it read less the quantity
DecrementInventoryWriteFromRead(p) ==
    /\ pc[p] = "decrement_write"
    /\ Finish(p)
    /\ inventory' = [k \in DOMAIN inventory |->
            IF k \in DOMAIN local[p].inventoryRecords
            THEN [inventory[k] EXCEPT !.availableCount =
                        local[p].inventoryRecords[k].availableCount - local[p].quantity]
            ELSE inventory[k]]
    /\ UNCHANGED <<today, bookings, payments, roomUnits, everConfirmed, reserved, timeZone, dailyRates, roomUnitHistory>>

\* lines 645-656: update({availableCount: {decrement: quantity}}) on the row
\* of every record that was read, and the commit; the database subtracts
\* from the count the row has when the update runs
DecrementInventoryWrite(p) ==
    /\ pc[p] = "decrement_write"
    /\ Finish(p)
    /\ inventory' = [k \in DOMAIN inventory |->
            IF k \in DOMAIN local[p].inventoryRecords
            THEN [inventory[k] EXCEPT !.availableCount = @ - local[p].quantity]
            ELSE inventory[k]]
    /\ UNCHANGED <<today, bookings, payments, roomUnits, everConfirmed, reserved, timeZone, dailyRates, roomUnitHistory>>

\* incrementInventory, lines 668-727
IncrementInventoryError(rt, startDate, endDate, quantity) ==
    IF quantity < 1 THEN 400
    ELSE IF InventoryInRange(inventory, rt, startDate, endDate) = {} THEN 404
    ELSE 0

\* incrementInventory without the cap at totalStock
IncrementAmountUncapped(inv, quantity) ==
    quantity

\* lines 704-705
IncrementAmount(inv, quantity) ==
    LET newAvailable == IF inv.availableCount + quantity <= inv.totalStock
                        THEN inv.availableCount + quantity
                        ELSE inv.totalStock
    IN  newAvailable - inv.availableCount

\* lines 702-715: every row findMany returned for the range is incremented
\* by the amount of lines 704-705
IncrementRange(inv, rt, startDate, endDate, quantity) ==
    [k \in DOMAIN inv |->
        IF k \in InventoryInRange(inv, rt, startDate, endDate)
        THEN [inv[k] EXCEPT !.availableCount = @ + IncrementAmount(inv[k], quantity)]
        ELSE inv[k]]

incrementInventory(rt, startDate, endDate, quantity) ==
    IF IncrementInventoryError(rt, startDate, endDate, quantity) # 0
    THEN Throw(IncrementInventoryError(rt, startDate, endDate, quantity))
    ELSE /\ inventory' = IncrementRange(inventory, rt, startDate, endDate, quantity)
         /\ UNCHANGED <<today, bookings, payments, roomUnits, pc, local, everConfirmed, reserved, timeZone, dailyRates, roomUnitHistory>>

\* lines 668-705, incrementInventory as far as its findMany: the handler
\* then holds, for every row it read, the incrementAmount of lines 704-705
IncrementInventoryRead(p, rt, startDate, endDate, quantity) ==
    /\ Idle(p)
    /\ LET err == IncrementInventoryError(rt, startDate, endDate, quantity)
       IN  IF err # 0 THEN Reject(p, err)
           ELSE Continue(p, "increment_write",
                    [quantity |-> quantity,
                     incrementAmount |->
                        [k \in InventoryInRange(inventory, rt, startDate, endDate) |->
                            IncrementAmount(inventory[k], quantity)]])

\* lines 708-716: update({availableCount: {increment: incrementAmount}}) on
\* the row of every record that was read, and the commit
IncrementInventoryWrite(p) ==
    /\ pc[p] = "increment_write"
    /\ Finish(p)
    /\ inventory' = [k \in DOMAIN inventory |->
            IF k \in DOMAIN local[p].incrementAmount
            THEN [inventory[k] EXCEPT !.availableCount = @ + local[p].incrementAmount[k]]
            ELSE inventory[k]]
    /\ UNCHANGED <<today, bookings, payments, roomUnits, everConfirmed, reserved, timeZone, dailyRates, roomUnitHistory>>

\* bulkUploadInventory, lines 751-778: the first row that fails validation
BulkItemError(item) ==
    IF item.availableCount = NoCount \/ item.totalStock = NoCount
       \/ item.totalStock = 0 THEN 400
    ELSE IF item.availableCount < 0 \/ item.totalStock <= 0 THEN 400
    ELSE IF item.availableCount > item.totalStock THEN 400
    ELSE 0

BulkUploadInventoryError(rt, inventoryData) ==
    IF Len(inventoryData) = 0 THEN 400
    ELSE IF rt \notin ActiveRoomTypes THEN 404
    ELSE IF \E i \in 1..Len(inventoryData) : BulkItemError(inventoryData[i]) # 0
         THEN 400
    ELSE 0

\* lines 780-790: walk validatedData from its last row to its first and put
\* a row in front of uniqueData when its date was not seen yet
RECURSIVE UniqueData(_, _, _, _)
UniqueData(validatedData, i, seenDates, uniqueData) ==
    IF i < 1 THEN uniqueData
    ELSE IF validatedData[i].date \in seenDates
         THEN UniqueData(validatedData, i - 1, seenDates, uniqueData)
    ELSE UniqueData(validatedData, i - 1, seenDates \cup {validatedData[i].date},
                    <<validatedData[i]>> \o uniqueData)

\* lines 799-829: update the row of the item's date, or create it
RECURSIVE UpsertAll(_, _, _, _)
UpsertAll(inv, rt, uniqueData, i) ==
    IF i > Len(uniqueData) THEN inv
    ELSE LET item == uniqueData[i]
             key == <<rt, item.date>>
             row == IF key \in DOMAIN inv
                    THEN [inv[key] EXCEPT !.availableCount = item.availableCount,
                                          !.totalStock = item.totalStock]
                    ELSE [availableCount |-> item.availableCount,
                          totalStock |-> item.totalStock, version |-> 0]
         IN  UpsertAll([k \in DOMAIN inv \cup {key} |-> IF k = key THEN row ELSE inv[k]],
                       rt, uniqueData, i + 1)

bulkUploadInventory(rt, inventoryData) ==
    IF BulkUploadInventoryError(rt, inventoryData) # 0
    THEN Throw(BulkUploadInventoryError(rt, inventoryData))
    ELSE /\ inventory' = UpsertAll(inventory, rt,
                UniqueData(inventoryData, Len(inventoryData), {}, <<>>), 1)
         /\ UNCHANGED <<today, bookings, payments, roomUnits, pc, local, everConfirmed, reserved, timeZone, dailyRates, roomUnitHistory>>

----------------------------------------------------------------------------
(* Row locks.  Inside a transaction every roomInventory.update locks its    *)
(* row until the transaction ends; an update of a row that another          *)
(* transaction has locked waits.  The handlers update the rows in the order *)
(* their findMany returned them, and a findMany without orderBy returns     *)
(* them in an order the database is free to choose.                         *)

\* the orders in which a query without orderBy may return a set of rows
RowOrders(rows) ==
    {f \in [1..Cardinality(rows) -> rows] :
        \A i, j \in 1..Cardinality(rows) : i # j => f[i] # f[j]}

UpdatePcs == {"create_update", "decrement_update"}

\* the rows the transaction of slot p has updated, and so locked
LockedBy(p) ==
    IF pc[p] \in UpdatePcs
    THEN {local[p].order[i] : i \in 1..local[p].updated}
    ELSE {}

\* the transaction of slot p has rows left to update
Updating(p) ==
    pc[p] \in UpdatePcs /\ local[p].updated < Len(local[p].order)

\* the row the transaction of slot p updates next
NextRow(p) == local[p].order[local[p].updated + 1]

\* the next update of slot p waits for a row lock that slot q holds
WaitsFor(p, q) ==
    p # q /\ Updating(p) /\ NextRow(p) \in LockedBy(q)

\* one roomInventory.update of the transaction of slot p: it takes the lock
\* of its row when no other transaction holds it
UpdateNextRow(p) ==
    /\ Updating(p)
    /\ \A q \in Procs : ~WaitsFor(p, q)
    /\ local' = [local EXCEPT ![p].updated = @ + 1]
    /\ UNCHANGED <<today, db, pc, everConfirmed, reserved, timeZone, dailyRates, roomUnitHistory>>

\* createBooking, lines 194-199: the findMany of the transaction
CreateBookingFindMany(p) ==
    /\ pc[p] = "create_tx"
    /\ \E order \in RowOrders(InventoryInRange(inventory, local[p].roomTypeId,
                                               local[p].start, local[p].end)) :
          Continue(p, "create_update", [tx |-> local[p], order |-> order, updated |-> 0])

\* createBooking, lines 201-206: one turn of the loop
CreateBookingUpdateRow(p) ==
    /\ pc[p] = "create_update"
    /\ UpdateNextRow(p)

\* createBooking, lines 209-226: the insert and the commit, or the rollback
\* when the insert violates bookings_bookingReference_key
CreateBookingInsert(p) ==
    /\ pc[p] = "create_update"
    /\ ~Updating(p)
    /\ IF local[p].tx.bookingReference \in UsedRefs
       THEN Reject(p, 500)
       ELSE Finish(p) /\ CreateBookingCommit(local[p].tx)

\* decrementInventory, lines 602-642: the checks and the findMany
DecrementInventoryFindMany(p, rt, startDate, endDate, quantity) ==
    /\ Idle(p)
    /\ LET err == DecrementInventoryError(rt, startDate, endDate, quantity)
       IN  IF err # 0 THEN Reject(p, err)
           ELSE \E order \in RowOrders(InventoryInRange(inventory, rt, startDate, endDate)) :
                  Continue(p, "decrement_update",
                      [quantity |-> quantity, order |-> order, updated |-> 0])

\* decrementInventory, lines 645-652: one of the updates
DecrementInventoryUpdateRow(p) ==
    /\ pc[p] = "decrement_update"
    /\ UpdateNextRow(p)

\* decrementInventory, lines 654-656: all updates are done, the commit
DecrementInventoryCommit(p) ==
    /\ pc[p] = "decrement_update"
    /\ ~Updating(p)
    /\ Finish(p)
    /\ inventory' = [k \in DOMAIN inventory |->
            IF k \in LockedBy(p)
            THEN [inventory[k] EXCEPT !.availableCount = @ - local[p].quantity]
            ELSE inventory[k]]
    /\ UNCHANGED <<today, bookings, payments, roomUnits, everConfirmed, reserved, timeZone, dailyRates, roomUnitHistory>>

\* two transactions wait for each other: the database aborts one of them
\* and its handler throws
DeadlockAbort(p) ==
    /\ \E q \in Procs : WaitsFor(p, q) /\ WaitsFor(q, p)
    /\ Reject(p, 500)

----------------------------------------------------------------------------
(* Room unit status: updateRoomUnitStatus and bulkUpdateStatus of           *)
(* roomUnit.controleer.js, called by a user with the ADMIN or STAFF role    *)

\* status.toUpperCase()
ToUpperCase(status) ==
    CASE status = "dirty" -> "DIRTY"
      [] status = "maintenance" -> "MAINTENANCE"
      [] OTHER -> status

\* roomUnit.findFirst / findMany with roomType: {deletedAt: null}
UnitVisible(u) ==
    u \in DOMAIN roomUnits /\ roomUnits[u].roomTypeId \in ActiveRoomTypes

\* the history records the handlers in flight will still write
HistoryInFlight ==
    Cardinality({q \in Procs : pc[q] = "status_tx"})
      + 2 * Cardinality({q \in Procs : pc[q] = "bulk_write"})

\* updateRoomUnitStatus, lines 125-150, or 0
UpdateRoomUnitStatusError(roomUnitId, status) ==
    IF roomUnitId = NoValue \/ status = NoValue THEN 400
    ELSE IF ~UnitVisible(roomUnitId) THEN 404
    ELSE IF roomUnits[roomUnitId].status = ToUpperCase(status) THEN 400
    ELSE IF ToUpperCase(status) \notin RoomStatus THEN 400
    ELSE 0

\* lines 125-150: the unit is read and checked
UpdateRoomUnitStatusCheck(p, roomUnitId, status) ==
    /\ Idle(p)
    /\ Len(roomUnitHistory) + HistoryInFlight < MaxHistory
    /\ IF UpdateRoomUnitStatusError(roomUnitId, status) # 0
       THEN Reject(p, UpdateRoomUnitStatusError(roomUnitId, status))
       ELSE Continue(p, "status_tx",
                [roomUnitId |-> roomUnitId,
                 oldStatus |-> roomUnits[roomUnitId].status,
                 newStatus |-> ToUpperCase(status)])

\* lines 152-166: the batch transaction writes the status and the history
\* record, whose oldStatus is the status that was read
UpdateRoomUnitStatusTx(p) ==
    /\ pc[p] = "status_tx"
    /\ Finish(p)
    /\ roomUnits' = [roomUnits EXCEPT ![local[p].roomUnitId].status = local[p].newStatus]
    /\ roomUnitHistory' = Append(roomUnitHistory,
            [roomUnitId |-> local[p].roomUnitId,
             oldStatus |-> local[p].oldStatus,
             newStatus |-> local[p].newStatus])
    /\ UNCHANGED <<today, inventory, bookings, payments, everConfirmed, reserved, timeZone,
                   dailyRates>>

\* [...new Set(roomUnitIds.map(...))]
NormalizedIds(roomUnitIds) == {roomUnitIds[i] : i \in 1..Len(roomUnitIds)}

\* bulkUpdateStatus, lines 184-211, or 0
BulkUpdateStatusError(roomUnitIds, status) ==
    IF roomUnitIds = NoValue \/ status = NoValue THEN 400
    ELSE IF Len(roomUnitIds) = 0 THEN 400
    ELSE IF ToUpperCase(status) \notin RoomStatus THEN 400
    ELSE IF \E u \in NormalizedIds(roomUnitIds) : ~UnitVisible(u) THEN 404
    ELSE 0

\* lines 184-211: the checks, and the findMany of the transaction
BulkUpdateStatusFind(p, roomUnitIds, status) ==
    /\ Idle(p)
    /\ Len(roomUnitHistory) + HistoryInFlight + 2 <= MaxHistory
    /\ IF BulkUpdateStatusError(roomUnitIds, status) # 0
       THEN Reject(p, BulkUpdateStatusError(roomUnitIds, status))
       ELSE Continue(p, "bulk_write",
                [units |-> [u \in NormalizedIds(roomUnitIds) |-> roomUnits[u].status],
                 newStatus |-> ToUpperCase(status)])

\* lines 214-228: updateMany, then createMany with one record per unit that
\* was read, in the order the findMany returned them
BulkUpdateStatusWrite(p) ==
    /\ pc[p] = "bulk_write"
    /\ Finish(p)
    /\ roomUnits' = [u \in DOMAIN roomUnits |->
            IF u \in DOMAIN local[p].units
            THEN [roomUnits[u] EXCEPT !.status = local[p].newStatus]
            ELSE roomUnits[u]]
    /\ \E order \in RowOrders(DOMAIN local[p].units) :
          roomUnitHistory' = roomUnitHistory \o
              [i \in 1..Len(order) |->
                  [roomUnitId |-> order[i],
                   oldStatus |-> local[p].units[order[i]],
                   newStatus |-> local[p].newStatus]]
    /\ UNCHANGED <<today, inventory, bookings, payments, everConfirmed, reserved, timeZone,
                   dailyRates>>

----------------------------------------------------------------------------
(* Daily rates: price.controller.js *)

\* an absent price in a request body
NoPrice == -9

\* validatePrice, lines 7-28, or 0
validatePrice(price) ==
    IF price = NoPrice THEN 400
    ELSE IF price <= 0 THEN 400
    ELSE IF price > 999999 THEN 400
    ELSE 0

\* validateAndParseDate, lines 31-56: the error, or 0
validateAndParseDateError(date, allowPast) ==
    IF date = NoDay THEN 400
    ELSE IF ~allowPast /\ setHours(UtcMidnight(date)) < TodayMidnight THEN 400
    ELSE 0

\* the day the Date that validateAndParseDate returns is stored as
ParsedDate(date) == DateColumn(setHours(UtcMidnight(date)))

\* verifyRoomTypeExists, lines 59-73, or 0
verifyRoomTypeExists(roomTypeId) ==
    IF roomTypeId = NoValue THEN 400
    ELSE IF roomTypeId \notin ActiveRoomTypes THEN 404
    ELSE 0

\* dailyRate.create / dailyRate.update of one row
PutRate(rates, key, price) ==
    [k \in DOMAIN rates \cup {key} |-> IF k = key THEN price ELSE rates[k]]

RatesAction(rates) ==
    /\ dailyRates' = rates
    /\ UNCHANGED <<today, db, pc, local, everConfirmed, reserved, timeZone, roomUnitHistory>>

\* the whole handler, lines 77-110
createDailyRate(roomTypeId, date, price) ==
    IF verifyRoomTypeExists(roomTypeId) # 0 THEN Throw(verifyRoomTypeExists(roomTypeId))
    ELSE IF validateAndParseDateError(date, FALSE) # 0 THEN Throw(400)
    ELSE IF validatePrice(price) # 0 THEN Throw(400)
    ELSE IF <<roomTypeId, ParsedDate(date)>> \in DOMAIN dailyRates THEN Throw(409)
    ELSE RatesAction(PutRate(dailyRates, <<roomTypeId, ParsedDate(date)>>, price))

\* the whole handler, lines 227-262
updateDailyRate(roomTypeId, date, price) ==
    IF verifyRoomTypeExists(roomTypeId) # 0 THEN Throw(verifyRoomTypeExists(roomTypeId))
    ELSE IF validateAndParseDateError(date, TRUE) # 0 THEN Throw(400)
    ELSE IF validatePrice(price) # 0 THEN Throw(400)
    ELSE IF <<roomTypeId, ParsedDate(date)>> \notin DOMAIN dailyRates THEN Throw(404)
    ELSE IF setHours(UtcMidnight(date)) < TodayMidnight THEN Throw(400)
    ELSE RatesAction(PutRate(dailyRates, <<roomTypeId, ParsedDate(date)>>, price))

\* the whole handler, lines 265-293
deleteDailyRate(roomTypeId, date) ==
    IF verifyRoomTypeExists(roomTypeId) # 0 THEN Throw(verifyRoomTypeExists(roomTypeId))
    ELSE IF validateAndParseDateError(date, TRUE) # 0 THEN Throw(400)
    ELSE IF <<roomTypeId, ParsedDate(date)>> \notin DOMAIN dailyRates THEN Throw(404)
    ELSE RatesAction([k \in DOMAIN dailyRates \ {<<roomTypeId, ParsedDate(date)>>}
                        |-> dailyRates[k]])

\* validatedData.splice(index, 1), index counted from 0: the element at the
\* index is removed, if there is one
Splice(validatedData, index) ==
    IF index < Len(validatedData)
    THEN SubSeq(validatedData, 1, index)
            \o SubSeq(validatedData, index + 2, Len(validatedData))
    ELSE validatedData

\* the loop of lines 314-335 from row i on, for rows that are all valid:
\* seenDates maps a date to the index its entry had when it was pushed
RECURSIVE Deduplicate(_, _, _, _)
Deduplicate(ratesData, i, validatedData, seenDates) ==
    IF i > Len(ratesData) THEN validatedData
    ELSE LET dateKey == ParsedDate(ratesData[i].date)
             spliced == IF dateKey \in DOMAIN seenDates
                        THEN Splice(validatedData, seenDates[dateKey])
                        ELSE validatedData
         IN  Deduplicate(ratesData, i + 1,
                Append(spliced, [date |-> dateKey, price |-> ratesData[i].price]),
                [k \in DOMAIN seenDates \cup {dateKey} |->
                    IF k = dateKey THEN Len(spliced) ELSE seenDates[k]])

\* bulkUploadRates, lines 300-335, for a ratesData that is an array: the
\* error, or 0
BulkUploadRatesError(roomTypeId, ratesData) ==
    IF verifyRoomTypeExists(roomTypeId) # 0 THEN verifyRoomTypeExists(roomTypeId)
    ELSE IF Len(ratesData) = 0 THEN 400
    ELSE IF Len(ratesData) > MaxUpload THEN 400
    ELSE IF \E i \in 1..Len(ratesData) :
                \/ validateAndParseDateError(ratesData[i].date, FALSE) # 0
                \/ validatePrice(ratesData[i].price) # 0
         THEN 400
    ELSE 0

\* the loop of lines 342-359 from item i on: update the rate of the item's
\* date, or create it
RECURSIVE UpsertRates(_, _, _, _)
UpsertRates(rates, roomTypeId, validatedData, i) ==
    IF i > Len(validatedData) THEN rates
    ELSE UpsertRates(PutRate(rates, <<roomTypeId, validatedData[i].date>>,
                             validatedData[i].price),
                     roomTypeId, validatedData, i + 1)

\* lines 296-335: the checks and the deduplication
BulkUploadRatesValidate(p, roomTypeId, ratesData) ==
    /\ Idle(p)
    /\ IF BulkUploadRatesError(roomTypeId, ratesData) # 0
       THEN Reject(p, BulkUploadRatesError(roomTypeId, ratesData))
       ELSE Continue(p, "rates_tx",
                [roomTypeId |-> roomTypeId,
                 ratesData |-> ratesData,
                 validatedData |-> Deduplicate(ratesData, 1, <<>>, [k \in {} |-> 0])])

\* lines 338-362: the transaction
BulkUploadRatesTx(p) ==
    /\ pc[p] = "rates_tx"
    /\ Finish(p)
    /\ dailyRates' = UpsertRates(dailyRates, local[p].roomTypeId, local[p].validatedData, 1)
    /\ UNCHANGED <<today, db, everConfirmed, reserved, timeZone, roomUnitHistory>>

----------------------------------------------------------------------------
(* Environment *)

\* the server clock passes midnight
Tick ==
    /\ today < MaxDay
    /\ today' = today + 1
    /\ UNCHANGED <<db, pc, local, everConfirmed, reserved, timeZone, dailyRates, roomUnitHistory>>

\* the payment provider, outside this repository: a payment row is created
\* for a booking, succeeds and may be refunded (a FAILED payment is to every
\* handler what a PENDING one is)
PaymentStep(b) ==
    /\ BookingExists(b)
    /\ \/ payments[b] = NoPayment /\ payments' = [payments EXCEPT ![b] = "PENDING"]
       \/ payments[b] = "PENDING" /\ payments' = [payments EXCEPT ![b] = "SUCCESS"]
       \/ payments[b] = "SUCCESS" /\ payments' = [payments EXCEPT ![b] = "REFUNDED"]
    /\ UNCHANGED <<today, inventory, bookings, roomUnits, pc, local, everConfirmed, reserved, timeZone, dailyRates, roomUnitHistory>>

----------------------------------------------------------------------------
\* the tables other than room_units, and the request slots, after start-up
InitRows ==
    /\ today = 1
    /\ \E S \in SUBSET InvKeys :
          inventory \in [S -> {[availableCount |-> s, totalStock |-> s, version |-> 0] :
                                s \in 1..MaxStock}]
    /\ bookings = <<>>
    /\ payments = [b \in BookingIds |-> NoPayment]
    /\ pc = [p \in Procs |-> "idle"]
    /\ local = [p \in Procs |-> NoLocal]
    /\ everConfirmed = {}
    /\ reserved = [b \in BookingIds |-> {}]
    /\ dailyRates = [k \in {<<"rt1", 2>>} |-> 150]
    /\ roomUnitHistory = <<>>

\* the tables and the request slots after start-up
InitTables ==
    /\ InitRows
    /\ roomUnits = [u \in UnitIds |-> [roomTypeId |-> UnitRoomType(u), status |-> "AVAILABLE"]]

\* the server runs in UTC
Init ==
    /\ InitTables
    /\ timeZone = "UTC"

\* req.body.roomUnitId: absent, a unit, or an id no unit has
UnitArgs == {NoValue} \cup UnitIds \cup {"uX"}

\* request bodies of createBooking: every pair of dates for the known guest
\* and room type, and one request each with an unknown guest, a missing room type
CreateArgs ==
    {<<"g1", "rt1", ci, co>> : ci \in Days, co \in Days}
        \cup {<<"gX", "rt1", 1, 2>>, <<"g1", "rtX", 1, 2>>}

\* request bodies of updateBooking: new dates, or a new room type
UpdateArgs ==
    {<<ci, co, NoValue>> : ci \in {NoDay} \cup Days, co \in {NoDay} \cup Days}
        \cup {<<NoDay, NoDay, rt>> : rt \in RoomTypeIds}

Environment ==
    \/ Tick
    \/ \E b \in BookingIds : PaymentStep(b)

\* requests run one at a time: every handler runs from its first line to its
\* response before the next one starts
NextSeq ==
    \/ Environment
    \/ \E a \in CreateArgs : createBooking(a[1], a[2], a[3], a[4], NoValue)
    \/ \E b \in BookingIds, a \in UpdateArgs :
          updateBooking(b, a[1], a[2], a[3], NoValue)
    \/ \E b \in BookingIds : confirmBooking(b)
    \/ \E b \in BookingIds : cancelBooking(b)
    \/ \E b \in BookingIds, u \in UnitArgs : checkInBooking(b, u)
    \/ \E b \in BookingIds : checkOutBooking(b)

SpecSeq == Init /\ [][NextSeq]_vars

\* stock figures a request may carry: absent, negative, zero, up to MaxStock
CountArgs == {NoCount} \cup (-1..MaxStock)

BulkItems == [date : InvDays, availableCount : 0..MaxStock, totalStock : 0..MaxStock]

BulkData == UNION {[1..n -> BulkItems] : n \in 1..MaxBulk}

\* inventory administration together with reservations and cancellations,
\* one request at a time
NextAdmin ==
    \/ Tick
    \/ \E a \in CreateArgs : createBooking(a[1], a[2], a[3], a[4], NoValue)
    \/ \E b \in BookingIds : cancelBooking(b)
    \/ \E rt \in RoomTypeIds, d \in InvDays, a \in CountArgs, t \in CountArgs :
          createInventory(rt, d, a, t)
    \/ \E rt \in RoomTypeIds, d \in InvDays, a \in CountArgs, t \in CountArgs :
          updateInventory(rt, d, a, t)
    \/ \E rt \in RoomTypeIds, ci \in Days, co \in Days, q \in 0..MaxStock :
          decrementInventory(rt, ci, co, q)
    \/ \E rt \in RoomTypeIds, ci \in Days, co \in Days, q \in 0..MaxStock :
          incrementInventory(rt, ci, co, q)
    \/ \E rt \in RoomTypeIds, data \in BulkData : bulkUploadInventory(rt, data)

SpecAdmin == Init /\ [][NextAdmin]_vars

\* the requests that run concurrently all ask for the night of day 2
RaceCreateArgs == {<<"g1", "rt1", 2, 3>>, <<"g1", "rt1", 3, 2>>}
RaceUpdateArgs == {<<2, 3, NoValue>>, <<NoDay, 2, NoValue>>}
RaceUnitArgs == {NoValue, "u1"}

\* requests run concurrently in NumProcs slots, one round trip per step
Lifecycle(p) ==
    \/ \E a \in RaceCreateArgs : CreateBookingCheck(p, a[1], a[2], a[3], a[4], NoValue)
    \/ CreateBookingTx(p)
    \/ \E b \in BookingIds, a \in RaceUpdateArgs :
          UpdateBookingCheck(p, b, a[1], a[2], a[3], NoValue)
    \/ UpdateBookingWrite(p)
    \/ \E b \in BookingIds : ConfirmBookingCheck(p, b)
    \/ ConfirmBookingWrite(p)
    \/ \E b \in BookingIds : CancelBookingCheck(p, b)
    \/ CancelBookingTx(p)
    \/ \E b \in BookingIds, u \in RaceUnitArgs : CheckInBookingCheck(p, b, u)
    \/ CheckInBookingFindUnit(p)
    \/ CheckInBookingOccupy(p)
    \/ CheckInBookingWrite(p)
    \/ \E b \in BookingIds : CheckOutBookingCheck(p, b)
    \/ CheckOutBookingTx(p)

Next ==
    \/ Environment
    \/ \E p \in Procs : Lifecycle(p)

\* every date has a row, all with the same stock
InitFull ==
    /\ Init
    /\ DOMAIN inventory = InvKeys
    /\ \A k \in InvKeys, j \in InvKeys : inventory[k] = inventory[j]

Spec == InitFull /\ [][Next]_vars

\* the server runs in any of the zones
InitDates ==
    /\ InitTables
    /\ timeZone \in TimeZones

\* createBooking requests over every pair of dates, one at a time
NextDates ==
    \/ Tick
    \/ \E ci \in DateDays, co \in DateDays : createBooking("g1", "rt1", ci, co, NoValue)

SpecDates == InitDates /\ [][NextDates]_vars

\* createBooking calls with the look-ups of generateBookingReference as
\* steps; the event loop resumes a handler whose query was answered
NextRef ==
    \/ Tick
    \/ \E p \in Procs, a \in CreateArgs :
          CreateBookingStart(p, a[1], a[2], a[3], a[4], NoValue)
    \/ \E p \in Procs : GenerateBookingReferenceLookup(p)
    \/ \E p \in Procs : CreateBookingTx(p)

SpecRef ==
    /\ Init
    /\ [][NextRef]_vars
    /\ \A p \in Procs : WF_vars(GenerateBookingReferenceLookup(p))
    /\ \A p \in Procs : WF_vars(CreateBookingTx(p))

\* availability checks between reservations, on tables of which some dates
\* may have no inventory row
NextAvailability ==
    \/ Tick
    \/ \E a \in CreateArgs : createBooking(a[1], a[2], a[3], a[4], NoValue)
    \/ \E p \in Procs, rt \in RoomTypeIds, ci \in Days, co \in Days, n \in 0..MaxStock :
          CheckAvailabilityQuery(p, rt, ci, co, n)
    \/ \E p \in Procs : CheckAvailabilityRespond(p)

SpecAvailability == Init /\ [][NextAvailability]_vars

\* a hotel whose two room units are both of the bookable room type; every
\* date has a row, all with the same stock
InitTwinUnits ==
    /\ InitRows
    /\ roomUnits = [u \in UnitIds |-> [roomTypeId |-> "rt1", status |-> "AVAILABLE"]]
    /\ timeZone = "UTC"
    /\ DOMAIN inventory = InvKeys
    /\ \A k \in InvKeys, j \in InvKeys : inventory[k] = inventory[j]

\* bookings are made and confirmed one request at a time; checkInBooking
\* requests run concurrently, one round trip per step
NextCheckIn ==
    \/ Environment
    \/ \E a \in RaceCreateArgs : createBooking(a[1], a[2], a[3], a[4], NoValue)
    \/ \E b \in BookingIds : confirmBooking(b)
    \/ \E p \in Procs, b \in BookingIds, u \in UnitArgs : CheckInBookingCheck(p, b, u)
    \/ \E p \in Procs : CheckInBookingFindUnit(p)
    \/ \E p \in Procs : CheckInBookingOccupy(p)
    \/ \E p \in Procs : CheckInBookingWrite(p)

SpecCheckIn == InitTwinUnits /\ [][NextCheckIn]_vars

\* reservations over every pair of dates and their cancellations, one
\* request at a time, on tables that hold rows for the first dates only
NextCancel ==
    \/ Tick
    \/ \E ci \in DateDays, co \in DateDays : createBooking("g1", "rt1", ci, co, NoValue)
    \/ \E b \in BookingIds : cancelBooking(b)

SpecCancel == Init /\ [][NextCancel]_vars

\* the range and quantities concurrent stock adjustments ask for
RaceRangeArgs == {<<"rt1", 2, 3>>, <<"rt1", 1, 3>>}

\* reservations, cancellations and manual stock adjustments run
\* concurrently, one round trip per step
NextStock ==
    \E p \in Procs :
        \/ \E a \in RaceCreateArgs : CreateBookingCheck(p, a[1], a[2], a[3], a[4], NoValue)
        \/ CreateBookingTx(p)
        \/ \E b \in BookingIds : CancelBookingCheck(p, b)
        \/ CancelBookingTx(p)
        \/ \E a \in RaceRangeArgs, q \in 0..MaxStock :
              DecrementInventoryRead(p, a[1], a[2], a[3], q)
        \/ DecrementInventoryWrite(p)
        \/ \E a \in RaceRangeArgs, q \in 0..MaxStock :
              IncrementInventoryRead(p, a[1], a[2], a[3], q)
        \/ IncrementInventoryWrite(p)

SpecStock == InitFull /\ [][NextStock]_vars

\* reservations and manual decrements over the two nights from day 1
LockCreateArgs == {<<"g1", "rt1", 1, 3>>, <<"g1", "rt1", 2, 3>>}
LockRangeArgs == {<<"rt1", 1, 3>>, <<"rt1", 2, 3>>}

\* createBooking and decrementInventory run concurrently, one statement of
\* their transactions per step
NextLocks ==
    \E p \in Procs :
        \/ \E a \in LockCreateArgs : CreateBookingCheck(p, a[1], a[2], a[3], a[4], NoValue)
        \/ CreateBookingFindMany(p)
        \/ CreateBookingUpdateRow(p)
        \/ CreateBookingInsert(p)
        \/ \E a \in LockRangeArgs, q \in 0..MaxStock :
              DecrementInventoryFindMany(p, a[1], a[2], a[3], q)
        \/ DecrementInventoryUpdateRow(p)
        \/ DecrementInventoryCommit(p)
        \/ DeadlockAbort(p)

SpecLocks == InitFull /\ [][NextLocks]_vars

\* what a daily-rate request may carry
RatePriceArgs == {NoPrice, 0, 120}
RateDayArgs == {NoDay} \cup InvDays
\* req.body.specialRequests: absent or a text
RequestArgs == {NoValue, "late arrival"}
\* the stays asked for while the rates are edited
PriceCreateArgs == {<<"g1", "rt1", 1, 3>>, <<"g1", "rt1", 2, 3>>}
PriceUpdateArgs == {<<NoDay, NoDay, NoValue>>, <<2, 3, NoValue>>, <<1, NoDay, NoValue>>}

\* one reservation through its life while the rates are edited, one request
\* at a time
NextPrice ==
    \/ Environment
    \/ /\ bookings = <<>>
       /\ \E a \in PriceCreateArgs : createBooking(a[1], a[2], a[3], a[4], NoValue)
    \/ \E b \in BookingIds, a \in PriceUpdateArgs, s \in RequestArgs :
          updateBooking(b, a[1], a[2], a[3], s)
    \/ \E b \in BookingIds : confirmBooking(b)
    \/ \E b \in BookingIds : cancelBooking(b)
    \/ \E b \in BookingIds, u \in RaceUnitArgs : checkInBooking(b, u)
    \/ \E b \in BookingIds : checkOutBooking(b)
    \/ \E rt \in RoomTypeIds, d \in RateDayArgs, price \in RatePriceArgs :
          createDailyRate(rt, d, price)
    \/ \E rt \in RoomTypeIds, d \in RateDayArgs, price \in RatePriceArgs :
          updateDailyRate(rt, d, price)
    \/ \E rt \in RoomTypeIds, d \in RateDayArgs : deleteDailyRate(rt, d)

SpecPrice == InitFull /\ [][NextPrice]_vars

\* req.body.status and req.body.roomUnitIds
StatusArgs == {NoValue, "dirty", "maintenance", "AVAILABLE", "BROKEN"}
BulkUnitArgs == {NoValue, <<>>, <<"u1">>, <<"u1", "u2">>, <<"u2", "u2">>, <<"u1", "uX">>}

\* staff change the status of room units, concurrently
NextUnits ==
    \E p \in Procs :
        \/ \E u \in UnitArgs, status \in StatusArgs : UpdateRoomUnitStatusCheck(p, u, status)
        \/ UpdateRoomUnitStatusTx(p)
        \/ \E ids \in BulkUnitArgs, status \in StatusArgs : BulkUpdateStatusFind(p, ids, status)
        \/ BulkUpdateStatusWrite(p)

SpecUnits == InitTwinUnits /\ [][NextUnits]_vars

\* the booking handlers that do not end a stay, one request at a time, over
\* the night of day 2
NextAssign ==
    \/ Environment
    \/ \E a \in RaceCreateArgs : createBooking(a[1], a[2], a[3], a[4], NoValue)
    \/ \E b \in BookingIds, a \in PriceUpdateArgs :
          updateBooking(b, a[1], a[2], a[3], NoValue)
    \/ \E b \in BookingIds : confirmBooking(b)
    \/ \E b \in BookingIds : cancelBooking(b)
    \/ \E b \in BookingIds, u \in RaceUnitArgs : checkInBooking(b, u)

\* the front desk keeps asking for every booking to be checked in to every
\* unit, and a request that is sent is served
SpecAssign ==
    /\ InitFull
    /\ [][NextAssign]_vars
    /\ \A b \in BookingIds, u \in UnitIds : SF_vars(checkInBooking(b, u))

\* the rows of req.body.ratesData: valid ones, one without a date, one with
\* a price of 0
RateRows ==
    [date : InvDays, price : {120, 150}]
        \cup {[date |-> NoDay, price |-> 120], [date |-> 1, price |-> 0]}

RatesData == UNION {[1..n -> RateRows] : n \in 0..MaxRates}

\* rate sheets are uploaded, one at a time, and single rates are deleted
NextRates ==
    \/ Tick
    \/ \E rt \in RoomTypeIds, ratesData \in RatesData :
          BulkUploadRatesValidate(1, rt, ratesData)
    \/ BulkUploadRatesTx(1)
    \/ \E d \in InvDays : deleteDailyRate("rt1", d)

SpecRates == InitFull /\ [][NextRates]_vars

----------------------------------------------------------------------------
(* Properties *)

\* bookings of room type rt whose half-open range contains date d and whose
\* status is in statuses
BookingsOn(rt, d, statuses) ==
    {i \in 1..Len(bookings) :
        /\ bookings[i].roomTypeId = rt
        /\ bookings[i].checkIn <= d
        /\ d < bookings[i].checkOut
        /\ bookings[i].status \in statuses}

\* C1: no overbooking.  With requests run one at a time and no inventory
\* administration, for every inventory row the bookings that are PENDING,
\* CONFIRMED or CHECKED_IN and cover its date number at most its totalStock.
C1_NoOverbooking ==
    \A k \in DOMAIN inventory :
        Cardinality(BookingsOn(k[1], k[2], {"PENDING", "CONFIRMED", "CHECKED_IN"}))
            <= inventory[k].totalStock

\* C2: under any interleaving of concurrent createBooking calls no row's
\* availableCount drops below 0.
C2_NoNegativeStock ==
    \A k \in DOMAIN inventory : inventory[k].availableCount >= 0

\* C3: under inventory administration, reservations and cancellations every
\* row satisfies availableCount <= totalStock.
C3_AvailableWithinStock ==
    \A k \in DOMAIN inventory : inventory[k].availableCount <= inventory[k].totalStock

\* C4: no orphaned or missing holds.  With requests run one at a time and no
\* inventory administration, every row's totalStock - availableCount is the
\* number of bookings, not CANCELLED, that cover its date.
C4_HoldsMatchBookings ==
    \A k \in DOMAIN inventory :
        inventory[k].totalStock - inventory[k].availableCount
            = Cardinality(BookingsOn(k[1], k[2], BookingStatus \ {"CANCELLED"}))

AllowedTransitions ==
    {<<"PENDING", "CONFIRMED">>, <<"CONFIRMED", "CHECKED_IN">>,
     <<"CHECKED_IN", "CHECKED_OUT">>, <<"PENDING", "CANCELLED">>,
     <<"CONFIRMED", "CANCELLED">>}

\* C5: with requests run one at a time and a clock that only moves forward,
\* every change of a booking's status is one of PENDING->CONFIRMED,
\* CONFIRMED->CHECKED_IN, CHECKED_IN->CHECKED_OUT, PENDING->CANCELLED,
\* CONFIRMED->CANCELLED; and cancelBooking refuses every CHECKED_IN booking.
C5_ForwardTransitions ==
    /\ [](\A i \in 1..Len(bookings) :
            bookings[i].status = "CHECKED_IN" => CancelBookingError(bookings[i]) # 0)
    /\ [][\A i \in 1..Len(bookings) :
            bookings'[i].status # bookings[i].status
                => <<bookings[i].status, bookings'[i].status>> \in AllowedTransitions]_vars

\* a booking is CHECKED_IN while another was cancelled after being CONFIRMED
C5_Witness ==
    \E i, j \in 1..Len(bookings) :
        /\ bookings[i].status = "CHECKED_IN"
        /\ bookings[j].status = "CANCELLED"
        /\ j \in everConfirmed

\* C6: once a booking is CANCELLED or CHECKED_OUT its status never changes
\* again, also when lifecycle requests on it interleave.
C6_TerminalStatusStays ==
    [][\A i \in 1..Len(bookings) :
            bookings[i].status \in {"CANCELLED", "CHECKED_OUT"}
                => bookings'[i].status = bookings[i].status]_vars

C8_FailedCreateWritesNothing ==
    [][\A p \in Procs :
            (pc[p] = "create_tx" /\ pc'[p] = "idle" /\ Len(bookings') = Len(bookings))
                => (inventory' = inventory /\ bookings' = bookings)]_vars

\* a createBooking transaction is about to insert a reference that another
\* booking took after the uniqueness look-up
C8_Witness ==
    \E p \in Procs :
        /\ pc[p] = "create_tx"
        /\ local[p].bookingReference \in UsedRefs
        /\ \E k \in InventoryInRange(inventory, local[p].roomTypeId,
                                     local[p].start, local[p].end) :
              inventory[k].availableCount < inventory[k].totalStock

\* C9: for a request with a known guest, valid dates and a range that has
\* inventory, createBooking's stock step refuses exactly when some row of the
\* range has availableCount < 1, whatever bookings overlap the range.
C9_StockStepRefusesOnlyOnShortage ==
    \A ci \in Days, co \in Days :
        (validateBookingDates(ci, co) = 0
            /\ InventoryInRange(inventory, "rt1", ci, co) # {})
        => ((CreateBookingError("g1", "rt1", ci, co) # 0)
                <=> \E k \in InventoryInRange(inventory, "rt1", ci, co) :
                        inventory[k].availableCount < 1)

\* C10: when a date of [start, end) has no inventory row, createBooking and
\* decrementInventory over the range fail.
C10_MissingRowFails ==
    \A ci \in Days, co \in Days :
        (validateBookingDates(ci, co) = 0
            /\ \E k \in RangeKeys("rt1", ci, co) : k \notin DOMAIN inventory)
        => /\ CreateBookingError("g1", "rt1", ci, co) # 0
           /\ DecrementInventoryError("rt1", ci, co, 1) # 0

\* the booking's dates or room type differ between the two states of a step
Moved(i) ==
    \/ bookings'[i].checkIn # bookings[i].checkIn
    \/ bookings'[i].checkOut # bookings[i].checkOut
    \/ bookings'[i].roomTypeId # bookings[i].roomTypeId

\* C11: a successful updateBooking that changes a booking's dates or room
\* type, in the same step, gives 1 back to every row of the old range, takes
\* 1 from every row of the new range, and stores the price of the new range.
C11_UpdateMovesHolds ==
    [][\A i \in 1..Len(bookings) :
            Moved(i) =>
                /\ inventory' =
                     AdjustRange(
                        AdjustRange(inventory, bookings[i].roomTypeId,
                                    bookings[i].checkIn, bookings[i].checkOut, 1),
                        bookings'[i].roomTypeId,
                        bookings'[i].checkIn, bookings'[i].checkOut, -1)
                /\ bookings'[i].totalPrice =
                     calculateBookingPrice(bookings'[i].roomTypeId,
                                           bookings'[i].checkIn, bookings'[i].checkOut)]_vars

\* some row of the range has no room left
ShortOfStock(rt, checkIn, checkOut) ==
    \E k \in InventoryInRange(inventory, rt, checkIn, checkOut) :
        inventory[k].availableCount < 1

\* C12: an updateBooking of a PENDING booking that asks for valid dates whose
\* range is short of stock is refused with 409, and no step stores on a
\* booking a range that was short of stock or changes an inventory row while
\* it moves a booking.
C12_UpdateConflictChangesNothing ==
    /\ [](\A i \in 1..Len(bookings), a \in UpdateArgs :
            LET data == UpdateBookingData(bookings[i], a[1], a[2], a[3], NoValue)
            IN  (/\ bookings[i].status = "PENDING"
                 /\ data.moves
                 /\ validateBookingDates(data.checkIn, data.checkOut) = 0
                 /\ ShortOfStock(data.roomTypeId, data.checkIn, data.checkOut))
                => UpdateBookingError(bookings[i], a[1], a[2], a[3], NoValue) = 409)
    /\ [][\A i \in 1..Len(bookings) :
            Moved(i) => ~ShortOfStock(bookings'[i].roomTypeId,
                                      bookings'[i].checkIn, bookings'[i].checkOut)]_vars

\* a PENDING booking could ask for another range, of which a night is sold out
C12_Witness ==
    \E i \in 1..Len(bookings), a \in UpdateArgs :
        LET data == UpdateBookingData(bookings[i], a[1], a[2], a[3], NoValue)
        IN  /\ bookings[i].status = "PENDING"
            /\ data.moves
            /\ <<data.checkIn, data.checkOut>> # <<bookings[i].checkIn, bookings[i].checkOut>>
            /\ ShortOfStock(data.roomTypeId, data.checkIn, data.checkOut)
            /\ UpdateBookingError(bookings[i], a[1], a[2], a[3], NoValue) = 409

\* C13: cancelling a CONFIRMED booking adds exactly 1 to exactly the rows its
\* createBooking decremented and changes no other row, also when
\* updateBooking changed its dates or room type while it was PENDING.
C13_CancelRecreditsReservedRows ==
    [][\A i \in 1..Len(bookings) :
            (bookings[i].status = "CONFIRMED" /\ bookings'[i].status = "CANCELLED")
                => inventory' =
                     [k \in DOMAIN inventory |->
                        IF k \in reserved[i]
                        THEN [inventory[k] EXCEPT !.availableCount = @ + 1]
                        ELSE inventory[k]]]_vars

\* C19: createBooking's date validation refuses a request exactly when its
\* checkIn is before today, or is not before its checkOut, or the stay is
\* longer than MaxNights nights; MaxNights nights from today are accepted.
C19_DateValidation ==
    \A ci \in DateDays, co \in DateDays :
        /\ (validateBookingDates(ci, co) # 0)
                <=> (ci < today \/ ci >= co \/ co - ci > MaxNights)
        /\ validateBookingDates(today, today + MaxNights) = 0

C15_CancelReleasesOnce ==
    [][\A p \in Procs :
            (/\ pc[p] = "cancel_tx"
             /\ pc'[p] = "idle"
             /\ bookings[local[p].bookingId].status = "CANCELLED")
            => inventory' = inventory]_vars

\* the arguments of decrementInventory and incrementInventory
RangeArgs == RoomTypeIds \X Days \X Days \X (0..MaxStock)

\* C16: decrementInventory is all-or-nothing: when a row of the range has
\* availableCount < quantity the call is refused, and a call that is not
\* refused takes exactly quantity from every row of the range and leaves
\* every other row as it was.
C16_DecrementAllOrNothing ==
    /\ [](\A a \in RangeArgs :
            (\E k \in InventoryInRange(inventory, a[1], a[2], a[3]) :
                inventory[k].availableCount < a[4])
            => DecrementInventoryError(a[1], a[2], a[3], a[4]) # 0)
    /\ [][\A a \in RangeArgs :
            (inventory' # inventory /\ decrementInventory(a[1], a[2], a[3], a[4]))
            => /\ \A k \in InventoryInRange(inventory, a[1], a[2], a[3]) :
                    /\ inventory[k].availableCount >= a[4]
                    /\ inventory'[k].availableCount = inventory[k].availableCount - a[4]
               /\ \A k \in DOMAIN inventory \ InventoryInRange(inventory, a[1], a[2], a[3]) :
                    inventory'[k] = inventory[k]
               /\ DOMAIN inventory' = DOMAIN inventory]_vars

\* two rows of a range, one with a room left and one without
C16_Witness ==
    \E k1 \in DOMAIN inventory, k2 \in DOMAIN inventory :
        /\ k1[1] = k2[1]
        /\ inventory[k1].availableCount < 1
        /\ inventory[k2].availableCount >= 1
        /\ DecrementInventoryError(k1[1], 1, MaxDay, 1) = 400

\* C17: incrementInventory with quantity q sets every row of the range whose
\* availableCount is at most its totalStock to min(availableCount + q,
\* totalStock), and leaves every row outside the range as it was.
C17_IncrementCapped ==
    [][\A a \in RangeArgs :
            (inventory' # inventory /\ incrementInventory(a[1], a[2], a[3], a[4]))
            => /\ \A k \in InventoryInRange(inventory, a[1], a[2], a[3]) :
                    inventory[k].availableCount <= inventory[k].totalStock
                    => inventory'[k].availableCount =
                          Min({inventory[k].availableCount + a[4], inventory[k].totalStock})
               /\ \A k \in DOMAIN inventory \ InventoryInRange(inventory, a[1], a[2], a[3]) :
                    inventory'[k] = inventory[k]]_vars

\* a row is full although a booking holds a room of it: its totalStock was
\* lowered, or its availableCount raised, after the reservation
C17_Witness ==
    \E k \in DOMAIN inventory :
        /\ inventory[k].availableCount = inventory[k].totalStock
        /\ BookingsOn(k[1], k[2], BookingStatus \ {"CANCELLED"}) # {}
        /\ IncrementInventoryError(k[1], k[2], k[2] + 1, 1) = 0

\* the price of one night: the daily rate of the date when there is one
NightPrice(rt, d) ==
    IF HasDailyRate(rt, d) THEN DailyRatePrice(rt, d) ELSE BasePrice(rt)

\* the sum of the night prices over a set of dates
RECURSIVE NightsTotal(_, _)
NightsTotal(rt, dates) ==
    IF dates = {} THEN 0
    ELSE LET d == CHOOSE x \in dates : TRUE
         IN  NightPrice(rt, d) + NightsTotal(rt, dates \ {d})

\* C18: the totalPrice createBooking stores is the sum, over the dates d with
\* checkIn <= d < checkOut, of the daily rate of d when there is one and of
\* the base price otherwise; two nights at base 100 of which one has a rate
\* of 150 cost 250, a night without a rate costs the base price.
C18_TotalPriceIsNightlySum ==
    /\ [][Len(bookings') = Len(bookings) + 1
            => LET b == bookings'[Len(bookings')]
               IN  b.totalPrice =
                     NightsTotal(b.roomTypeId, {d \in Days : b.checkIn <= d /\ d < b.checkOut})]_vars
    /\ [](calculateBookingPrice("rt1", 1, 3) = 250 /\ calculateBookingPrice("rt1", 1, 2) = 100)

\* a booking of two nights, one of them with a daily rate, and one of a
\* night without
C18_Witness ==
    \E i, j \in 1..Len(bookings) :
        /\ bookings[i].checkIn = 1 /\ bookings[i].checkOut = 3
        /\ bookings[i].totalPrice = 250
        /\ bookings[j].checkIn = 1 /\ bookings[j].checkOut = 2
        /\ bookings[j].totalPrice = 100

\* C20: a checkInBooking call that names a room unit and succeeds found the
\* unit existing, of the booking's room type and AVAILABLE, leaves it
\* OCCUPIED and stamps it on the booking, now CHECKED_IN; and no step makes a
\* unit OCCUPIED or stamps a unit on a booking unless it checks in a
\* CONFIRMED booking with that unit.
C20_CheckInAssignsUnit ==
    /\ [][\A b \in BookingIds, u \in UnitArgs \ {NoValue} :
            (bookings' # bookings /\ checkInBooking(b, u))
            => /\ u \in DOMAIN roomUnits
               /\ roomUnits[u].roomTypeId = bookings[b].roomTypeId
               /\ roomUnits[u].status = "AVAILABLE"
               /\ roomUnits'[u].status = "OCCUPIED"
               /\ bookings'[b].roomUnitId = u
               /\ bookings'[b].status = "CHECKED_IN"]_vars
    /\ [][\A u \in UnitIds :
            (\/ (roomUnits'[u].status = "OCCUPIED" /\ roomUnits[u].status # "OCCUPIED")
             \/ \E b \in 1..Len(bookings) :
                   bookings'[b].roomUnitId = u /\ bookings[b].roomUnitId # u)
            => /\ roomUnits[u].status = "AVAILABLE"
               /\ roomUnits'[u].status = "OCCUPIED"
               /\ \E b \in 1..Len(bookings) :
                     /\ bookings[b].status = "CONFIRMED"
                     /\ bookings[b].roomTypeId = roomUnits[u].roomTypeId
                     /\ bookings'[b].status = "CHECKED_IN"
                     /\ bookings'[b].roomUnitId = u]_vars

\* a booking is checked in to the unit of its room type, and a CONFIRMED
\* booking due today has no unit it could be given
C20_Witness ==
    \E i, j \in 1..Len(bookings) :
        /\ bookings[i].status = "CHECKED_IN"
        /\ bookings[i].roomUnitId = "u1"
        /\ roomUnits["u1"].status = "OCCUPIED"
        /\ bookings[j].status = "CONFIRMED"
        /\ bookings[j].roomUnitId = NoValue
        /\ CheckInBookingError(bookings[j]) = 0
        /\ \A u \in UnitIds : ~UnitAssignable(u, bookings[j].roomTypeId)

C22_CheckOutDirtiesUnit ==
    /\ [](\A i \in 1..Len(bookings) :
            (CheckOutBookingError(bookings[i]) = 0) <=> bookings[i].status = "CHECKED_IN")
    /\ [][\A i \in 1..Len(bookings) :
            (bookings'[i].status = "CHECKED_OUT" /\ bookings[i].status # "CHECKED_OUT")
            => /\ bookings[i].status = "CHECKED_IN"
               /\ bookings'[i] = [bookings[i] EXCEPT !.status = "CHECKED_OUT"]
               /\ bookings[i].roomUnitId # NoValue
                    => roomUnits'[bookings[i].roomUnitId].status = "DIRTY"
               /\ \A u \in UnitIds : u # bookings[i].roomUnitId
                    => roomUnits'[u] = roomUnits[u]]_vars
    /\ [][\A u \in UnitIds :
            (roomUnits'[u].status = "DIRTY" /\ roomUnits[u].status # "DIRTY")
            => \E i \in 1..Len(bookings) :
                  /\ bookings[i].roomUnitId = u
                  /\ bookings[i].status = "CHECKED_IN"
                  /\ bookings'[i].status = "CHECKED_OUT"]_vars

\* a booking with a unit was checked out, one without a unit was checked out
\* or is refused
C22_Witness ==
    \E i, j \in 1..Len(bookings) :
        /\ bookings[i].status = "CHECKED_OUT"
        /\ bookings[i].roomUnitId = "u1"
        /\ roomUnits["u1"].status = "DIRTY"
        /\ bookings[j].status = "CHECKED_OUT"
        /\ bookings[j].roomUnitId = NoValue

\* C23: in every reachable state, whatever the interleaving of lifecycle
\* requests, a booking that carries a roomUnitId is CHECKED_IN or CHECKED_OUT.
C23_UnitOnlyWhenCheckedIn ==
    \A i \in 1..Len(bookings) :
        bookings[i].roomUnitId # NoValue
            => bookings[i].status \in {"CHECKED_IN", "CHECKED_OUT"}

\* C24: updateBooking refuses with 400 every request for a booking that is
\* not PENDING, and no step changes a field other than status and roomUnitId
\* of a booking that is not PENDING, or changes an inventory row while it
\* changes such a field of a booking.
C24_UpdateOnlyWhilePending ==
    /\ [](\A i \in 1..Len(bookings), a \in UpdateArgs :
            bookings[i].status # "PENDING"
                => UpdateBookingError(bookings[i], a[1], a[2], a[3], NoValue) = 400)
    /\ [][\A i \in 1..Len(bookings) :
            [bookings'[i] EXCEPT !.status = "x", !.roomUnitId = "x"]
                    # [bookings[i] EXCEPT !.status = "x", !.roomUnitId = "x"]
            => (bookings[i].status = "PENDING" /\ bookings'[i].status = "PENDING"
                    /\ inventory' = inventory)]_vars

\* a booking that is no longer PENDING asks for other nights that are valid
\* and in stock, and is refused
C24_Witness ==
    \E i \in 1..Len(bookings), a \in UpdateArgs :
        LET data == UpdateBookingData(bookings[i], a[1], a[2], a[3], NoValue)
        IN  /\ bookings[i].status \in {"CONFIRMED", "CHECKED_IN"}
            /\ data.moves
            /\ data.error = 0
            /\ <<data.checkIn, data.checkOut>> # <<bookings[i].checkIn, bookings[i].checkOut>>
            /\ UpdateBookingError(bookings[i], a[1], a[2], a[3], NoValue) = 400

\* C25: no two bookings carry the same bookingReference, also when two
\* createBooking calls drew the same candidate after both look-ups found
\* nothing; the transaction of the call whose reference was taken meanwhile
\* inserts no booking and leaves every inventory row as it was.
C25_ReferencesUnique ==
    /\ [](\A i, j \in 1..Len(bookings) :
            i # j => bookings[i].bookingReference # bookings[j].bookingReference)
    /\ [][\A p \in Procs :
            (/\ pc[p] = "create_tx"
             /\ pc'[p] = "idle"
             /\ local[p].bookingReference \in UsedRefs)
            => (bookings' = bookings /\ inventory' = inventory)]_vars

\* a booking was inserted with the reference and the nights that a
\* createBooking call still in flight is about to insert
C25_Witness ==
    \E p \in Procs, i \in 1..Len(bookings) :
        /\ pc[p] = "create_tx"
        /\ bookings[i].bookingReference = local[p].bookingReference
        /\ bookings[i].checkIn = local[p].start
        /\ bookings[i].checkOut = local[p].end

\* C26: reference generation always terminates: a createBooking call that
\* has entered generateBookingReference leaves it, with a reference or with
\* a failure, also when every candidate it draws is taken.
C26_ReferenceGenerationTerminates ==
    \A p \in Procs : (pc[p] = "create_ref") ~> (pc[p] # "create_ref")

\* C27: round trip.  After a decrementInventory call that succeeded, an
\* incrementInventory call over the same range with the same quantity gives
\* every row the availableCount it had before the decrement; and after a
\* createBooking call that succeeded, a cancelBooking of that booking, when
\* it is accepted, gives every row the availableCount it had before.
C27_RoundTrip ==
    /\ [][\A a \in RangeArgs :
            (inventory' # inventory /\ decrementInventory(a[1], a[2], a[3], a[4]))
            => IncrementRange(inventory', a[1], a[2], a[3], a[4]) = inventory]_vars
    /\ [][(Len(bookings') = Len(bookings) + 1
                /\ CancelBookingError(bookings'[Len(bookings')]) = 0)
            => LET b == bookings'[Len(bookings')]
               IN  AdjustRange(inventory', b.roomTypeId, b.checkIn, b.checkOut, 1)
                        = inventory]_vars

\* C28: checkAvailability changes no stored state and reports isAvailable
\* exactly when every date of [checkIn, checkOut) has an inventory row with
\* availableCount >= roomsNeeded, its minimum being the smallest
\* availableCount over the dates of the range; a range of which a date has
\* no row is not reported as available.
C28_AvailabilityReport ==
    [][\A p \in Procs :
            (pc[p] = "idle" /\ pc'[p] = "availability_respond")
            => LET l == local'[p]
                   keys == RangeKeys(l.roomTypeId, l.startDate, l.endDate)
               IN  /\ db' = db
                   /\ l.isAvailable
                        <=> \A k \in keys :
                               /\ k \in DOMAIN inventory
                               /\ inventory[k].availableCount >= l.roomsNeeded
                   /\ keys \subseteq DOMAIN inventory
                        => l.minAvailable = Min({inventory[k].availableCount : k \in keys})]_vars

\* C29: at no time do two CHECKED_IN bookings carry the same roomUnitId,
\* whatever the interleaving of the unit look-up, the unit update and the
\* booking update of concurrent checkInBooking calls.
C29_UnitHasOneGuest ==
    \A i, j \in 1..Len(bookings) :
        (/\ i # j
         /\ bookings[i].status = "CHECKED_IN"
         /\ bookings[j].status = "CHECKED_IN"
         /\ bookings[i].roomUnitId # NoValue)
        => bookings[i].roomUnitId # bookings[j].roomUnitId

\* C30: checkInBooking with a unit is atomic: once the checkInBooking calls
\* in flight have answered, every unit that is OCCUPIED is the roomUnitId of
\* a CHECKED_IN booking, also when two check-ins of one booking that name
\* different units race.
C30_OccupiedUnitHasGuest ==
    (\A p \in Procs : pc[p] = "idle")
        => \A u \in UnitIds :
              roomUnits[u].status = "OCCUPIED"
                => \E i \in 1..Len(bookings) :
                      /\ bookings[i].status = "CHECKED_IN"
                      /\ bookings[i].roomUnitId = u

\* C31: cancelBooking never leaves a booking CANCELLED while the release of
\* one of its nights did not take effect: in the step that turns a booking
\* CANCELLED every night of its range has an inventory row, and that row's
\* availableCount is 1 higher after the step.
C31_CancelReleasesEveryNight ==
    [][\A i \in 1..Len(bookings) :
            (bookings'[i].status = "CANCELLED" /\ bookings[i].status # "CANCELLED")
            => \A d \in DateDays :
                  (bookings[i].checkIn <= d /\ d < bookings[i].checkOut)
                  => /\ <<bookings[i].roomTypeId, d>> \in DOMAIN inventory
                     /\ inventory'[<<bookings[i].roomTypeId, d>>].availableCount
                            = inventory[<<bookings[i].roomTypeId, d>>].availableCount + 1]_vars

\* the availableCount of row k after the step less the one before it
Delta(k) == inventory'[k].availableCount - inventory[k].availableCount

\* C32: no lost update on a stock row.  Whatever was committed between an
\* operation's read and its own commit, its commit moves every row of its
\* range by exactly its quantity from the count the row has just before:
\* decrementInventory by -quantity, incrementInventory by +quantity when it
\* clamped no row, createBooking by -1, cancelBooking by +1; and it moves no
\* other row.  The final count of a row is thus its initial count less the
\* committed decrements plus the committed increments.
C32_NoLostUpdate ==
    [][\A p \in Procs, k \in DOMAIN inventory :
            /\ (pc[p] = "decrement_write" /\ pc'[p] = "idle")
                => Delta(k) = IF k \in DOMAIN local[p].inventoryRecords
                              THEN -local[p].quantity ELSE 0
            /\ (/\ pc[p] = "increment_write" /\ pc'[p] = "idle"
                /\ \A j \in DOMAIN local[p].incrementAmount :
                      local[p].incrementAmount[j] = local[p].quantity)
                => Delta(k) = IF k \in DOMAIN local[p].incrementAmount
                              THEN local[p].quantity ELSE 0
            /\ (pc[p] = "create_tx" /\ pc'[p] = "idle" /\ Len(bookings') > Len(bookings))
                => Delta(k) = IF k \in InventoryInRange(inventory, local[p].roomTypeId,
                                                        local[p].start, local[p].end)
                              THEN -1 ELSE 0
            /\ (pc[p] = "cancel_tx" /\ pc'[p] = "idle")
                => Delta(k) = IF k \in InventoryInRange(inventory,
                                        local[p].booking.roomTypeId,
                                        local[p].booking.checkIn, local[p].booking.checkOut)
                              THEN 1 ELSE 0]_vars

\* a decrement and an increment are both about to write a row whose count
\* is no longer the one the decrement read
C32_Witness ==
    \E p, q \in Procs, k \in DOMAIN inventory :
        /\ pc[p] = "decrement_write"
        /\ pc[q] = "increment_write"
        /\ k \in DOMAIN local[p].inventoryRecords
        /\ k \in DOMAIN local[q].incrementAmount
        /\ local[q].incrementAmount[k] = local[q].quantity
        /\ local[p].inventoryRecords[k].availableCount # inventory[k].availableCount

\* C33: transactions that update overlapping inventory rows take the row
\* locks in ascending order of date, and no two of them reach a state in
\* which each holds a row lock the other is waiting for.
C33_LocksInDateOrder ==
    /\ \A p \in Procs :
          pc[p] \in UpdatePcs
            => \A i, j \in 1..Len(local[p].order) :
                  i < j => local[p].order[i][2] < local[p].order[j][2]
    /\ \A p, q \in Procs : ~(WaitsFor(p, q) /\ WaitsFor(q, p))

\* C34: a step of confirmBooking, checkInBooking or checkOutBooking, that
\* is, a step that turns a booking CONFIRMED, CHECKED_IN or CHECKED_OUT, sets
\* a booking's roomUnitId or changes a room unit, leaves every inventory row
\* as it was; check-out gives no stock back.
C34_LifecycleKeepsInventory ==
    [][(\/ \E i \in 1..Len(bookings) :
             /\ bookings'[i].status # bookings[i].status
             /\ bookings'[i].status \in {"CONFIRMED", "CHECKED_IN", "CHECKED_OUT"}
        \/ \E i \in 1..Len(bookings) : bookings'[i].roomUnitId # bookings[i].roomUnitId
        \/ roomUnits' # roomUnits)
       => inventory' = inventory]_vars

\* a booking was checked out and the night of its stay is still taken from
\* the stock
C34_Witness ==
    \E i \in 1..Len(bookings) :
        /\ bookings[i].status = "CHECKED_OUT"
        /\ \A d \in Days :
              (bookings[i].checkIn <= d /\ d < bookings[i].checkOut)
                => /\ <<bookings[i].roomTypeId, d>> \in DOMAIN inventory
                   /\ inventory[<<bookings[i].roomTypeId, d>>].availableCount
                        < inventory[<<bookings[i].roomTypeId, d>>].totalStock

\* C35: a booking's totalPrice changes only in an updateBooking that carries
\* a date or a room type; confirmBooking, checkInBooking, checkOutBooking,
\* cancelBooking, an updateBooking that carries specialRequests alone, and
\* the creation, change or deletion of daily rates leave it as it is.
C35_PriceChangesOnlyOnUpdate ==
    [][/\ \A i \in 1..Len(bookings) :
            bookings'[i].totalPrice # bookings[i].totalPrice
            => \E a \in PriceUpdateArgs, s \in RequestArgs :
                  /\ a # <<NoDay, NoDay, NoValue>>
                  /\ updateBooking(i, a[1], a[2], a[3], s)
       /\ dailyRates' # dailyRates
            => \A i \in 1..Len(bookings) : bookings'[i] = bookings[i]]_vars

\* C35 as stated: a booking's totalPrice changes only in a step that
\* changes its dates or its room type.
C35_PriceChangesOnlyWithDates ==
    [][\A i \in 1..Len(bookings) :
          bookings'[i].totalPrice # bookings[i].totalPrice
          => \/ bookings'[i].checkIn # bookings[i].checkIn
             \/ bookings'[i].checkOut # bookings[i].checkOut
             \/ bookings'[i].roomTypeId # bookings[i].roomTypeId]_vars

\* a booking past PENDING, updated with specialRequests, keeps a price the
\* rates of today no longer give
C35_Witness ==
    \E i \in 1..Len(bookings) :
        /\ bookings[i].status \in {"CONFIRMED", "CHECKED_IN", "CHECKED_OUT", "CANCELLED"}
        /\ bookings[i].specialRequests # NoValue
        /\ bookings[i].totalPrice
              # calculateBookingPrice(bookings[i].roomTypeId, bookings[i].checkIn,
                                      bookings[i].checkOut)

\* C36: every committed decrement (createBooking, decrementInventory) and
\* increment (cancelBooking, incrementInventory) of a row's availableCount
\* raises the row's version by one.
C36_VersionCountsStockChanges ==
    [][\A k \in DOMAIN inventory :
          inventory'[k].availableCount # inventory[k].availableCount
          => inventory'[k].version = inventory[k].version + 1]_vars

\* C37: a step of updateRoomUnitStatus or bulkUpdateStatus that changes the
\* status of units appends, in the same step, exactly one history record for
\* each unit it changes, and every record it appends carries as oldStatus
\* the status its unit had before the step and as newStatus the status it
\* has after it, also when two status changes run concurrently.
C37_HistoryRecordsTheChange ==
    [][LET appended == (Len(roomUnitHistory) + 1)..Len(roomUnitHistory')
       IN  /\ \A u \in UnitIds :
                roomUnits'[u].status # roomUnits[u].status
                => Cardinality({i \in appended : roomUnitHistory'[i].roomUnitId = u}) = 1
           /\ \A i \in appended :
                /\ roomUnitHistory'[i].oldStatus
                      = roomUnits[roomUnitHistory'[i].roomUnitId].status
                /\ roomUnitHistory'[i].newStatus
                      = roomUnits'[roomUnitHistory'[i].roomUnitId].status]_vars

\* a booking that is CHECKED_IN without a unit never gets one
CheckedInStaysUnassigned ==
    [][\A i \in 1..Len(bookings) :
          (bookings[i].status = "CHECKED_IN" /\ bookings[i].roomUnitId = NoValue)
          => bookings'[i].roomUnitId = NoValue]_vars

\* C38: the check-in of a booking without a roomUnitId leaves it CHECKED_IN
\* with no unit and changes no unit, and such a booking remains assignable:
\* it comes to be CHECKED_IN with a unit, that unit OCCUPIED.
C38_RemainsAssignable ==
    /\ [][\A i \in 1..Len(bookings) :
            (/\ bookings[i].status # "CHECKED_IN"
             /\ bookings'[i].status = "CHECKED_IN"
             /\ bookings'[i].roomUnitId = NoValue)
            => roomUnits' = roomUnits]_vars
    /\ \A i \in BookingIds :
          (/\ BookingExists(i)
           /\ bookings[i].status = "CHECKED_IN"
           /\ bookings[i].roomUnitId = NoValue)
          ~> (/\ BookingExists(i)
              /\ bookings[i].status = "CHECKED_IN"
              /\ bookings[i].roomUnitId # NoValue
              /\ roomUnits[bookings[i].roomUnitId].status = "OCCUPIED")

\* the dates of the rows of ratesData, and the price of the last row of date d
UploadedDates(ratesData) ==
    {ParsedDate(ratesData[i].date) : i \in 1..Len(ratesData)}

LastPrice(ratesData, d) ==
    LET rows == {i \in 1..Len(ratesData) : ParsedDate(ratesData[i].date) = d}
    IN  ratesData[CHOOSE i \in rows : \A j \in rows : j <= i].price

\* C39: the deduplication of bulkUploadRates yields exactly one entry per
\* distinct date of ratesData, carrying the price of the date's last row,
\* and after the upload every uploaded date has a daily rate equal to its
\* last given price.
C39_KeepsLastOccurrence ==
    /\ [](\A p \in Procs :
            pc[p] = "rates_tx"
            => LET ratesData == local[p].ratesData
                   validatedData == local[p].validatedData
               IN  /\ \A j \in 1..Len(validatedData) :
                        validatedData[j].date \in UploadedDates(ratesData)
                   /\ \A d \in UploadedDates(ratesData) :
                        /\ Cardinality({j \in 1..Len(validatedData) :
                                            validatedData[j].date = d}) = 1
                        /\ \A j \in 1..Len(validatedData) :
                              validatedData[j].date = d
                              => validatedData[j].price = LastPrice(ratesData, d))
    /\ [][\A p \in Procs :
            (pc[p] = "rates_tx" /\ pc'[p] = "idle")
            => \A d \in UploadedDates(local[p].ratesData) :
                  /\ <<local[p].roomTypeId, d>> \in DOMAIN dailyRates'
                  /\ dailyRates'[<<local[p].roomTypeId, d>>]
                        = LastPrice(local[p].ratesData, d)]_vars

====
